---- MODULE Spec2Model ----
(***************************************************************************)
(* Complementry: the promise-based completion-request coordination of the *)
(* VS Code extension (src/unnamed/part_001).                               *)
(*                                                                         *)
(* The extension runs on one cooperative JavaScript task queue: a handler  *)
(* runs up to its next suspension point (an await of real I/O) without     *)
(* interleaving, so each action below is one such uninterrupted stretch.   *)
(***************************************************************************)
EXTENDS Integers, Sequences, FiniteSets, TLC

\* ---------------------------------------------------------------- bounds
\* Number of triggerCompletion runs that get past the editor guard.
MaxRuns == 2
\* Number of direct createPendingRequest calls in the class-level harness.
MaxRequests == 2

\* ------------------------------------------------------------ input sets
Docs == {"file:///a.md", "file:///b.md", "file:///notes.txt"}
NoEditor == "<no editor>"
Editors == Docs \cup {NoEditor}
\* document.languageId
languageId(document) ==
    IF document = "file:///notes.txt" THEN "plaintext" ELSE "markdown"
\* cursor positions <<line, character>>
Positions == {<<0, 3>>, <<1, 0>>}
\* texts the model can answer with
Texts == {"baz", "qux", "quux", "corge"}
\* The text of the model call of run r, when the call answers one: a text
\* of its own, so that an item tells which call its text came from.
ResponseText(r) == <<"baz", "qux", "quux", "corge">>[r]
\* what generateText can do: answer a text, answer the empty text, or throw
EmptyText == ""
Throws == "<throws>"
Outcomes(r) == {ResponseText(r), EmptyText, Throws}
\* the JavaScript null of a string-or-null value
NullText == "<null>"
\* the JavaScript null of the pendingRequest field
NoRequest == [promise |-> 0]
\* the JavaScript null returned instead of a promise
NoPromise == 0

VARIABLES
    pendingRequest,  \* CompletionRequestManager.pendingRequest
    promises,        \* every promise created so far, by creation order
    clock,           \* logical time of create/settle events
    runs,            \* the triggerCompletion runs, by start order
    outstanding,     \* runs whose generateText call is in flight
    settings,        \* DocumentSettingsManager.settings
    statusBar,       \* statusBarItem: icon and text, and its pending resets
    triggerManager,  \* the fields of CompletionTriggerManager
    calls,           \* the calls made to CompletionTriggerManager so far
    ret              \* the operation that just ran and what it returned

vars == <<pendingRequest, promises, clock, runs, outstanding, settings,
          statusBar, triggerManager, calls, ret>>

\* ------------------------------------------------------------- status bar
\* setStatus without a timeout argument
NoTimeout == 0
\* '$(sparkle) Complementry'
IdleStatus == [icon |-> "sparkle", text |-> "Complementry"]

\* setStatus(text, icon, timeout): the item shows `$(icon) text`; with a
\* timeout, a timer is started that puts the idle text back. timers tells
\* whether such a timer can still be pending.
setStatus(text, icon, timeout) ==
    [icon |-> icon, text |-> text, timers |-> statusBar.timers \/ timeout > 0]

\* ------------------------------------------------------------- promises
\* new Promise((resolve) => { resolveFunc = resolve; })
NewPromise(documentUri, position, t) ==
    [documentUri |-> documentUri, position |-> position, createdAt |-> t,
     settledAt |-> 0, value |-> <<>>, resolveCalls |-> 0]

\* Calling the resolver of promise p: the first call settles the promise,
\* a later call is ignored by the promise but is still a call.
ResolvePromise(ps, p, items, t) ==
    [ps EXCEPT ![p] =
        [@ EXCEPT !.resolveCalls = @ + 1,
                  !.value = IF ps[p].settledAt = 0 THEN items ELSE @,
                  !.settledAt = IF @ = 0 THEN t ELSE @]]

Settled(p) == promises[p].settledAt # 0
Unsettled == {p \in DOMAIN promises : ~Settled(p)}

\* new vscode.InlineCompletionItem(completion); item.range = new Range(position, position)
InlineCompletionItem(completion, position) ==
    [insertText |-> completion, range |-> <<position, position>>]

\* --------------------------------------------- CompletionRequestManager
createPendingRequest_NoCancel(documentUri, position) ==
    /\ promises' = Append(promises, NewPromise(documentUri, position, clock + 1))
    /\ pendingRequest' = [documentUri |-> documentUri, position |-> position,
                          promise |-> Len(promises) + 1]
    /\ clock' = clock + 1

createPendingRequest_CancelAfterStore(documentUri, position) ==
    LET id == Len(promises) + 1
        created == Append(promises, NewPromise(documentUri, position, clock + 1))
    IN  /\ promises' = IF pendingRequest # NoRequest
                         THEN ResolvePromise(created, id, <<>>, clock + 2)
                         ELSE created
        /\ pendingRequest' = [documentUri |-> documentUri, position |-> position,
                              promise |-> id]
        /\ clock' = IF pendingRequest # NoRequest THEN clock + 2 ELSE clock + 1

createPendingRequest(documentUri, position) ==
    LET busy == pendingRequest # NoRequest
        \* Cancel any existing request
        cancelled == IF busy
                       THEN ResolvePromise(promises, pendingRequest.promise, <<>>, clock + 1)
                       ELSE promises
        t == IF busy THEN clock + 1 ELSE clock
    IN  /\ promises' = Append(cancelled, NewPromise(documentUri, position, t + 1))
        /\ pendingRequest' = [documentUri |-> documentUri, position |-> position,
                              promise |-> Len(promises) + 1]
        /\ clock' = t + 1

resolveRequest_KeepSlot(items) ==
    IF pendingRequest # NoRequest
      THEN /\ promises' = ResolvePromise(promises, pendingRequest.promise, items, clock + 1)
           /\ pendingRequest' = pendingRequest
           /\ clock' = clock + 1
      ELSE UNCHANGED <<promises, pendingRequest, clock>>

resolveRequest_SettleEmpty(items) ==
    IF pendingRequest # NoRequest
      THEN /\ promises' = ResolvePromise(promises, pendingRequest.promise, <<>>, clock + 1)
           /\ pendingRequest' = NoRequest
           /\ clock' = clock + 1
      ELSE UNCHANGED <<promises, pendingRequest, clock>>

resolveRequest_ResolveLast(items) ==
    IF pendingRequest # NoRequest
      THEN /\ promises' = ResolvePromise(promises, pendingRequest.promise, items, clock + 1)
           /\ pendingRequest' = NoRequest
           /\ clock' = clock + 1
      ELSE /\ promises' = IF promises # <<>>
                            THEN ResolvePromise(promises, Len(promises), items, clock + 1)
                            ELSE promises
           /\ UNCHANGED <<pendingRequest, clock>>

resolveRequest(items) ==
    IF pendingRequest # NoRequest
      THEN /\ promises' = ResolvePromise(promises, pendingRequest.promise, items, clock + 1)
           /\ pendingRequest' = NoRequest
           /\ clock' = clock + 1
      ELSE \* 'no pending request to resolve'
           UNCHANGED <<promises, pendingRequest, clock>>

getPendingPromise_AnyDocument(documentUri) ==
    IF pendingRequest # NoRequest THEN pendingRequest.promise ELSE NoPromise

getPendingPromise(documentUri) ==
    IF pendingRequest # NoRequest /\ pendingRequest.documentUri = documentUri
      THEN pendingRequest.promise
      ELSE NoPromise

hasPendingRequest == pendingRequest # NoRequest

cancelRequest_KeepSlot ==
    IF pendingRequest # NoRequest
      THEN /\ promises' = ResolvePromise(promises, pendingRequest.promise, <<>>, clock + 1)
           /\ pendingRequest' = pendingRequest
           /\ clock' = clock + 1
      ELSE UNCHANGED <<promises, pendingRequest, clock>>

cancelRequest_NoSettle ==
    IF pendingRequest # NoRequest
      THEN /\ pendingRequest' = NoRequest
           /\ UNCHANGED <<promises, clock>>
      ELSE UNCHANGED <<promises, pendingRequest, clock>>

cancelRequest ==
    IF pendingRequest # NoRequest
      THEN /\ promises' = ResolvePromise(promises, pendingRequest.promise, <<>>, clock + 1)
           /\ pendingRequest' = NoRequest
           /\ clock' = clock + 1
      ELSE UNCHANGED <<promises, pendingRequest, clock>>

\* ------------------------------------------------------------ LLMService
getCompletion_EmptyIsText(outcome) ==
    IF outcome = Throws THEN NullText ELSE outcome

\* What getCompletion returns for an outcome of generateText:
\* 'return result.text || null' and, in the catch block, 'return null'.
getCompletion(outcome) ==
    IF outcome = Throws THEN NullText
    ELSE IF outcome = EmptyText THEN NullText
    ELSE outcome

\* The workspace configuration section 'complementry': a function from the
\* keys that have a value to their values.
NoEntries == [k \in {} |-> 0]
Entry(key, values, value) == IF value \in values THEN key :> value ELSE NoEntries
Unset == "<unset>"
Configurations ==
    {Entry("model", {"my-model"}, modelId)
       @@ Entry("maxTokens", {64, 150}, maxTokens)
       @@ Entry("awsRegion", {"eu-west-1"}, region)
       @@ Entry("apiEndpoint", {"", "https://llm.example/v1"}, apiEndpoint)
       @@ Entry("apiKey", {"sk-1"}, apiKey) :
         modelId \in {Unset, "my-model"}, maxTokens \in {0, 64, 150},
         region \in {Unset, "eu-west-1"},
         apiEndpoint \in {Unset, "", "https://llm.example/v1"},
         apiKey \in {Unset, "sk-1"}}
\* prompts handed to getCompletion
Prompts == {"", "Continue: foobar"}

\* config.get(key, defaultValue)
configGet(config, key, defaultValue) ==
    IF key \in DOMAIN config THEN config[key] ELSE defaultValue
\* what config.get(key) answers for a key without a value
Undefined == "<undefined>"

\* no backend call was made
NoCall == [call |-> "none"]

generateTextCall_FixedTokens(prompt, config) ==
    [call |-> "generateText",
     model |-> configGet(config, "model", "us.anthropic.claude-3-5-haiku-20241022-v1:0"),
     region |-> configGet(config, "awsRegion", "us-east-1"),
     prompt |-> prompt,
     maxOutputTokens |-> 150,
     temperature |-> "0.7"]

\* The generateText call of getCompletion(prompt, config), with the region
\* its Bedrock provider is created for.
generateTextCall(prompt, config) ==
    [call |-> "generateText",
     model |-> configGet(config, "model", "us.anthropic.claude-3-5-haiku-20241022-v1:0"),
     region |-> configGet(config, "awsRegion", "us-east-1"),
     prompt |-> prompt,
     maxOutputTokens |-> configGet(config, "maxTokens", 150),
     temperature |-> "0.7"]

\* '!apiEndpoint || !apiKey'
Falsy(value) == value = Undefined \/ value = ""

fetchCall_EndpointOnly(prompt, config) ==
    IF Falsy(configGet(config, "apiEndpoint", Undefined))
      THEN NoCall
      ELSE [call |-> "fetch",
            url |-> configGet(config, "apiEndpoint", Undefined),
            authorization |-> configGet(config, "apiKey", Undefined),
            model |-> configGet(config, "model", "gpt-4"),
            content |-> prompt,
            max_tokens |-> configGet(config, "maxTokens", 150),
            temperature |-> "0.7"]

\* The fetch call of the HTTP variant of getCompletion(prompt, config); none
\* when the endpoint or the key is not configured.
fetchCall(prompt, config) ==
    IF Falsy(configGet(config, "apiEndpoint", Undefined))
         \/ Falsy(configGet(config, "apiKey", Undefined))
      THEN NoCall
      ELSE [call |-> "fetch",
            url |-> configGet(config, "apiEndpoint", Undefined),
            authorization |-> configGet(config, "apiKey", Undefined),
            model |-> configGet(config, "model", "gpt-4"),
            content |-> prompt,
            max_tokens |-> configGet(config, "maxTokens", 150),
            temperature |-> "0.7"]

\* -------------------------------------------------------------- provider
provideInlineCompletionItems_NoLanguageCheck(document, position) ==
    [op |-> "provideInlineCompletionItems", document |-> document,
     languageId |-> languageId(document), position |-> position,
     consulted |-> TRUE, result |-> getPendingPromise(document)]

provideInlineCompletionItems_MatchPosition(document, position) ==
    IF languageId(document) # "markdown"
      THEN [op |-> "provideInlineCompletionItems", document |-> document,
            languageId |-> languageId(document), position |-> position,
            consulted |-> FALSE, result |-> NoPromise]
      ELSE [op |-> "provideInlineCompletionItems", document |-> document,
            languageId |-> languageId(document), position |-> position,
            consulted |-> TRUE,
            result |-> IF pendingRequest # NoRequest /\ pendingRequest.position = position
                         THEN getPendingPromise(document)
                         ELSE NoPromise]

provideInlineCompletionItems(document, position) ==
    IF languageId(document) # "markdown"
      THEN \* 'Not markdown, returning null'
           [op |-> "provideInlineCompletionItems", document |-> document,
            languageId |-> languageId(document), position |-> position,
            consulted |-> FALSE, result |-> NoPromise]
      ELSE [op |-> "provideInlineCompletionItems", document |-> document,
            languageId |-> languageId(document), position |-> position,
            consulted |-> TRUE, result |-> getPendingPromise(document)]

\* ----------------------------------------------- DocumentSettingsManager
\* documents whose settings are edited
SettingsDocs == {"file:///a.md", "file:///b.md"}
\* context file paths
Paths == {"/ctx/a.md", "/ctx/b.md", "/ctx/c.md"}
\* prompt templates a user can enter
Templates == {"", "Continue: {document}"}
\* promptTemplate is an optional field: undefined until it is set
NoTemplate == "<undefined>"
\* new Map()
NoSettings == [d \in {} |-> 0]

\* Array.prototype.includes
Includes(files, filePath) == \E i \in DOMAIN files : files[i] = filePath

\* Array.prototype.indexOf, 1-based; 0 where JavaScript answers -1
IndexOf(files, filePath) ==
    IF Includes(files, filePath)
      THEN CHOOSE i \in DOMAIN files :
              files[i] = filePath /\ \A j \in 1..(i - 1) : files[j] # filePath
      ELSE 0

\* files.splice(index, 1) for an index inside the array
Splice(files, index) ==
    SubSeq(files, 1, index - 1) \o SubSeq(files, index + 1, Len(files))

getSettings_AlwaysCreate(s, documentUri) ==
    [d \in DOMAIN s \cup {documentUri} |->
        IF d = documentUri
          THEN [promptTemplate |-> NoTemplate, contextFiles |-> <<>>]
          ELSE s[d]]

\* The map after getSettings(documentUri): the entry is created on first
\* access; the call returns the entry, getSettings(s, documentUri)[documentUri].
getSettings(s, documentUri) ==
    IF documentUri \in DOMAIN s
      THEN s
      ELSE s @@ (documentUri :> [promptTemplate |-> NoTemplate, contextFiles |-> <<>>])

setPromptTemplate_AllDocuments(documentUri, template) ==
    settings' = [d \in DOMAIN getSettings(settings, documentUri) |->
                   [getSettings(settings, documentUri)[d] EXCEPT !.promptTemplate = template]]

setPromptTemplate(documentUri, template) ==
    settings' = [getSettings(settings, documentUri) EXCEPT
                   ![documentUri].promptTemplate = template]

addContextFile_Unshift(documentUri, filePath) ==
    LET s == getSettings(settings, documentUri) IN
    settings' = IF ~Includes(s[documentUri].contextFiles, filePath)
                  THEN [s EXCEPT ![documentUri].contextFiles = <<filePath>> \o @]
                  ELSE s

addContextFile_NoIncludes(documentUri, filePath) ==
    settings' = [getSettings(settings, documentUri) EXCEPT
                   ![documentUri].contextFiles = Append(@, filePath)]

addContextFile(documentUri, filePath) ==
    LET s == getSettings(settings, documentUri) IN
    settings' = IF ~Includes(s[documentUri].contextFiles, filePath)
                  THEN [s EXCEPT ![documentUri].contextFiles = Append(@, filePath)]
                  ELSE s

\* splice(-1, 1) removes the last element
removeContextFile_NoIndexCheck(documentUri, filePath) ==
    LET s == getSettings(settings, documentUri)
        files == s[documentUri].contextFiles
        index == IndexOf(files, filePath)
    IN  settings' = IF index > 0
                      THEN [s EXCEPT ![documentUri].contextFiles = Splice(files, index)]
                      ELSE IF files # <<>>
                        THEN [s EXCEPT ![documentUri].contextFiles = Splice(files, Len(files))]
                        ELSE s

removeContextFile(documentUri, filePath) ==
    LET s == getSettings(settings, documentUri)
        files == s[documentUri].contextFiles
        index == IndexOf(files, filePath)
    IN  settings' = IF index > 0
                      THEN [s EXCEPT ![documentUri].contextFiles = Splice(files, index)]
                      ELSE s

\* the contextFiles array getContextFiles(documentUri) returns
getContextFiles(s, documentUri) == getSettings(s, documentUri)[documentUri].contextFiles

\* the promptTemplate a getSettings(documentUri) call would show
TemplateOf(s, documentUri) == getSettings(s, documentUri)[documentUri].promptTemplate

\* ---------------------------------------------------------- PromptBuilder
\* A JavaScript string is the sequence of its characters; Chars gives the
\* characters of every string literal of the model.
Chars(str) ==
    CASE str = "" ->
          <<>>
      [] str = "Continue: {document}" ->
          <<"C", "o", "n", "t", "i", "n", "u", "e", ":", " ", "{", "d",
            "o", "c", "u", "m", "e", "n", "t", "}">>
      [] str = "A{cursor}B{cursor}" ->
          <<"A", "{", "c", "u", "r", "s", "o", "r", "}", "B", "{", "c",
            "u", "r", "s", "o", "r", "}">>
      [] str = "{before_cursor}[X]{after_cursor}" ->
          <<"{", "b", "e", "f", "o", "r", "e", "_", "c", "u", "r", "s",
            "o", "r", "}", "[", "X", "]", "{", "a", "f", "t", "e", "r",
            "_", "c", "u", "r", "s", "o", "r", "}">>
      [] str = "{document}|{before_cursor}|{after_cursor}|{context_files}|{cursor}|{document}|{before_cursor}|{after_cursor}|{context_files}|{cursor}" ->
          <<"{", "d", "o", "c", "u", "m", "e", "n", "t", "}", "|", "{",
            "b", "e", "f", "o", "r", "e", "_", "c", "u", "r", "s", "o",
            "r", "}", "|", "{", "a", "f", "t", "e", "r", "_", "c", "u",
            "r", "s", "o", "r", "}", "|", "{", "c", "o", "n", "t", "e",
            "x", "t", "_", "f", "i", "l", "e", "s", "}", "|", "{", "c",
            "u", "r", "s", "o", "r", "}", "|", "{", "d", "o", "c", "u",
            "m", "e", "n", "t", "}", "|", "{", "b", "e", "f", "o", "r",
            "e", "_", "c", "u", "r", "s", "o", "r", "}", "|", "{", "a",
            "f", "t", "e", "r", "_", "c", "u", "r", "s", "o", "r", "}",
            "|", "{", "c", "o", "n", "t", "e", "x", "t", "_", "f", "i",
            "l", "e", "s", "}", "|", "{", "c", "u", "r", "s", "o", "r",
            "}">>
      [] str = "{context_files}" ->
          <<"{", "c", "o", "n", "t", "e", "x", "t", "_", "f", "i", "l",
            "e", "s", "}">>
      [] str = "{foo} bar" ->
          <<"{", "f", "o", "o", "}", " ", "b", "a", "r">>
      [] str = "{cur{context_files}sor}" ->
          <<"{", "c", "u", "r", "{", "c", "o", "n", "t", "e", "x", "t",
            "_", "f", "i", "l", "e", "s", "}", "s", "o", "r", "}">>
      [] str = "/ctx/a.md" ->
          <<"/", "c", "t", "x", "/", "a", ".", "m", "d">>
      [] str = "/ctx/b.md" ->
          <<"/", "c", "t", "x", "/", "b", ".", "m", "d">>
      [] str = "/ctx/c.md" ->
          <<"/", "c", "t", "x", "/", "c", ".", "m", "d">>
      [] str = "{document}" ->
          <<"{", "d", "o", "c", "u", "m", "e", "n", "t", "}">>
      [] str = "{before_cursor}" ->
          <<"{", "b", "e", "f", "o", "r", "e", "_", "c", "u", "r", "s",
            "o", "r", "}">>
      [] str = "{after_cursor}" ->
          <<"{", "a", "f", "t", "e", "r", "_", "c", "u", "r", "s", "o",
            "r", "}">>
      [] str = "{cursor}" ->
          <<"{", "c", "u", "r", "s", "o", "r", "}">>
      [] str = "[CURSOR HERE]" ->
          <<"[", "C", "U", "R", "S", "O", "R", " ", "H", "E", "R", "E",
            "]">>
      [] str = "\n--- Context from " ->
          <<"\n", "-", "-", "-", " ", "C", "o", "n", "t", "e", "x", "t",
            " ", "f", "r", "o", "m", " ">>
      [] str = " ---\n" ->
          <<" ", "-", "-", "-", "\n">>
      [] str = "\n" ->
          <<"\n">>
      [] str = "foobar" ->
          <<"f", "o", "o", "b", "a", "r">>
      [] str = "a$$b" ->
          <<"a", "$", "$", "b">>
      [] str = "alpha" ->
          <<"a", "l", "p", "h", "a">>
      [] str = "beta" ->
          <<"b", "e", "t", "a">>

\* prompt templates a user can enter in the input box
PromptTemplates ==
    {"", "A{cursor}B{cursor}", "{before_cursor}[X]{after_cursor}",
     "{document}|{before_cursor}|{after_cursor}|{context_files}|{cursor}|{document}|{before_cursor}|{after_cursor}|{context_files}|{cursor}",
     "{context_files}", "{foo} bar", "{cur{context_files}sor}"}
\* values of the 'defaultPromptTemplate' configuration entry
DefaultTemplates == {"", "Continue: {document}"}
\* the edited document: one line of text under one URI
TextDocuments ==
    {[uri |-> "file:///a.md", text |-> t] : t \in {"foobar", "{cursor}", "a$$b"}}
\* cursor positions <<line, character>> in that line
CursorPositions == {<<0, 0>>, <<0, 3>>}
\* context file paths configured when prompts are built
ContextPaths == {"/ctx/a.md", "/ctx/b.md"}
\* what openTextDocument finds for a path: a text, or no readable file
Missing == "<missing>"
FileSystems ==
    {[p \in ContextPaths |-> IF p \in loadable
                               THEN (IF p = "/ctx/a.md" THEN "alpha" ELSE "beta")
                               ELSE Missing] :
        loadable \in {ContextPaths, {"/ctx/b.md"}, {}}}

\* the pattern matches s at index i
MatchAt(s, pat, i) ==
    /\ i + Len(pat) - 1 <= Len(s)
    /\ \A k \in 1..Len(pat) : s[i + k - 1] = pat[k]

\* the first index at or after from where the pattern matches s, 0 if none
RECURSIVE Search(_, _, _)
Search(s, pat, from) ==
    IF from + Len(pat) - 1 > Len(s) THEN 0
    ELSE IF MatchAt(s, pat, from) THEN from
    ELSE Search(s, pat, from + 1)

\* The expansion of a replacement string for the match of n characters at
\* index i of s: '$$' is a dollar sign, '$&' the match, '$`' the text before
\* the match, "$'" the text after it; the patterns have no capture group, so
\* every other '$' stands for itself.
RECURSIVE GetSubstitution(_, _, _, _)
GetSubstitution(rep, s, i, n) ==
    IF \A k \in DOMAIN rep : rep[k] # "$" THEN rep
    ELSE IF Head(rep) = "$" /\ Len(rep) >= 2 /\ rep[2] \in {"$", "&", "`", "'"}
      THEN (CASE rep[2] = "$" -> <<"$">>
              [] rep[2] = "&" -> SubSeq(s, i, i + n - 1)
              [] rep[2] = "`" -> SubSeq(s, 1, i - 1)
              [] rep[2] = "'" -> SubSeq(s, i + n, Len(s)))
           \o GetSubstitution(SubSeq(rep, 3, Len(rep)), s, i, n)
    ELSE <<Head(rep)>> \o GetSubstitution(Tail(rep), s, i, n)

RECURSIVE ReplaceFrom_FirstOnly(_, _, _, _)
ReplaceFrom_FirstOnly(s, pat, rep, from) ==
    LET index == Search(s, pat, from) IN
    IF index = 0 THEN SubSeq(s, from, Len(s))
    ELSE SubSeq(s, from, index - 1)
         \o GetSubstitution(rep, s, index, Len(pat))
         \o SubSeq(s, index + Len(pat), Len(s))

\* s.replace(/pat/g, rep) from index from on: every match, left to right,
\* is replaced by the expansion of rep.
RECURSIVE ReplaceFrom(_, _, _, _)
ReplaceFrom(s, pat, rep, from) ==
    LET index == Search(s, pat, from) IN
    IF index = 0 THEN SubSeq(s, from, Len(s))
    ELSE SubSeq(s, from, index - 1)
         \o GetSubstitution(rep, s, index, Len(pat))
         \o ReplaceFrom(s, pat, rep, index + Len(pat))

\* String.prototype.replace with a global pattern and a string replacement
replace(s, pat, rep) == ReplaceFrom(s, pat, rep, 1)

\* the five template variables, in the order the code replaces them
Placeholders ==
    <<"{document}", "{before_cursor}", "{after_cursor}", "{context_files}", "{cursor}">>
CursorMarker == "[CURSOR HERE]"

\* vscode.workspace.openTextDocument(uri): the text, or a rejection
openTextDocument(fs, filePath) == fs[filePath]

RECURSIVE contextContent_Prepend(_, _)
contextContent_Prepend(files, fs) ==
    IF files = <<>> THEN <<>>
    ELSE contextContent_Prepend(Tail(files), fs)
         \o (IF openTextDocument(fs, Head(files)) = Missing
                THEN <<>>
                ELSE Chars("\n--- Context from ") \o Chars(Head(files)) \o Chars(" ---\n")
                     \o Chars(openTextDocument(fs, Head(files))) \o Chars("\n"))

RECURSIVE contextContent_EmptyForMissing(_, _)
contextContent_EmptyForMissing(files, fs) ==
    IF files = <<>> THEN <<>>
    ELSE Chars("\n--- Context from ") \o Chars(Head(files)) \o Chars(" ---\n")
         \o (IF openTextDocument(fs, Head(files)) = Missing
               THEN <<>> ELSE Chars(openTextDocument(fs, Head(files))))
         \o Chars("\n")
         \o contextContent_EmptyForMissing(Tail(files), fs)

\* The 'Load context files' loop: one block per file that opens, nothing
\* for a file whose openTextDocument rejects ('File not found, skip').
RECURSIVE contextContent(_, _)
contextContent(files, fs) ==
    IF files = <<>> THEN <<>>
    ELSE (IF openTextDocument(fs, Head(files)) = Missing
            THEN <<>>
            ELSE Chars("\n--- Context from ") \o Chars(Head(files)) \o Chars(" ---\n")
                 \o Chars(openTextDocument(fs, Head(files))) \o Chars("\n"))
         \o contextContent(Tail(files), fs)

\* document.getText(new vscode.Range(from, to)) in a one-line document
getText(document, from, to) == SubSeq(Chars(document.text), from[2] + 1, to[2])
\* document.positionAt(document.getText().length)
EndOf(document) == <<0, Len(Chars(document.text))>>

\* 'Replace template variables': the five replace calls, in code order
ReplaceTemplateVariables(template, fullDocument, textBeforeCursor, textAfterCursor, context) ==
    replace(replace(replace(replace(replace(template,
        Chars("{document}"), fullDocument),
        Chars("{before_cursor}"), textBeforeCursor),
        Chars("{after_cursor}"), textAfterCursor),
        Chars("{context_files}"), context),
        Chars("{cursor}"), Chars(CursorMarker))

\* 'a || b' on an optional string: b when a is undefined or empty
OrElse(a, b) == IF a = NoTemplate \/ a = "" THEN b ELSE a

\* The prompt buildPrompt(document, position, defaultTemplate) returns when
\* the settings map is s and the file system is fs. (The call also creates
\* the settings entry of the document, see getSettings.)
buildPrompt(s, document, position, defaultTemplate, fs) ==
    LET docSettings == getSettings(s, document.uri)[document.uri]
        template == OrElse(docSettings.promptTemplate, defaultTemplate)
        textBeforeCursor == getText(document, <<0, 0>>, position)
        textAfterCursor == getText(document, position, EndOf(document))
        fullDocument == Chars(document.text)
    IN  ReplaceTemplateVariables(Chars(template), fullDocument, textBeforeCursor,
            textAfterCursor, contextContent(docSettings.contextFiles, fs))

\* ----------------------------------------------- CompletionTriggerManager
\* (result-caching variant)
\* the JavaScript null of an item-list-or-null value
NullItems == <<[insertText |-> NullText, range |-> <<>>]>>
\* the fields of a new manager
NoResult ==
    [completionResult |-> NullItems, completionDocUri |-> NullText,
     lastCompletionText |-> NullText, resultCallCount |-> 0]

\* setCompletionResult(documentUri, items): the manager afterwards
setCompletionResult(manager, documentUri, items) ==
    [completionResult |-> items,
     completionDocUri |-> documentUri,
     resultCallCount |-> 0,
     lastCompletionText |->
         IF Len(items) > 0 /\ items[1].insertText # EmptyText
           THEN items[1].insertText
           ELSE manager.lastCompletionText]

getCompletionResult_ThreeCalls(manager, documentUri) ==
    IF manager.completionDocUri = documentUri /\ manager.completionResult # NullItems
      THEN LET count == manager.resultCallCount + 1 IN
           IF count >= 3
             THEN [manager |-> [manager EXCEPT !.resultCallCount = count,
                                               !.completionResult = NullItems,
                                               !.completionDocUri = NullText],
                   result |-> manager.completionResult]
             ELSE [manager |-> [manager EXCEPT !.resultCallCount = count],
                   result |-> manager.completionResult]
      ELSE [manager |-> manager, result |-> NullItems]

\* getCompletionResult(documentUri): the manager afterwards and the value
\* returned.  An empty array is truthy.
getCompletionResult(manager, documentUri) ==
    IF manager.completionDocUri = documentUri /\ manager.completionResult # NullItems
      THEN LET count == manager.resultCallCount + 1 IN
           IF count > 3
             THEN [manager |-> [manager EXCEPT !.resultCallCount = count,
                                               !.completionResult = NullItems,
                                               !.completionDocUri = NullText],
                   result |-> manager.completionResult]
             ELSE [manager |-> [manager EXCEPT !.resultCallCount = count],
                   result |-> manager.completionResult]
      ELSE [manager |-> manager, result |-> NullItems]

\* ------------------------------------------------------------------ Init
Init ==
    /\ pendingRequest = NoRequest
    /\ promises = <<>>
    /\ clock = 0
    /\ runs = <<>>
    /\ outstanding = {}
    /\ settings = NoSettings
    /\ statusBar = [icon |-> IdleStatus.icon, text |-> IdleStatus.text, timers |-> FALSE]
    /\ triggerManager = NoResult
    /\ calls = <<>>
    /\ ret = [op |-> "activate"]

\* ------------------------------------- complementry.triggerCompletion
\* The events of one run, in the order the code performs them.
StartEvents == <<"createPendingRequest", "buildPrompt", "inlineSuggest.trigger", "await llmPromise">>

NewRun(document, position, events) ==
    [pc |-> "build", document |-> document, position |-> position,
     promise |-> Len(promises) + 1, completion |-> NullText, events |-> events]

\* 'editor && editor.document.languageId === "markdown"'
MarkdownEditor(ed) ==
    IF ed = NoEditor THEN FALSE ELSE languageId(ed) = "markdown"

TriggerCompletion_TriggerAfterAnswer(ed, position) ==
    \/ /\ ~MarkdownEditor(ed)
       /\ UNCHANGED <<settings, triggerManager, calls>>
       /\ ret' = [op |-> "triggerCompletion", editor |-> ed, started |-> FALSE]
       /\ UNCHANGED <<pendingRequest, promises, clock, runs, outstanding>>
    \/ /\ MarkdownEditor(ed)
       /\ Len(runs) < MaxRuns
       /\ createPendingRequest(ed, position)
       /\ runs' = Append(runs, NewRun(ed, position,
                           <<"createPendingRequest", "buildPrompt", "await llmPromise">>))
       /\ UNCHANGED <<settings, triggerManager, calls>>
       /\ ret' = [op |-> "triggerCompletion", editor |-> ed, started |-> TRUE]
       /\ UNCHANGED <<outstanding>>

TriggerCompletion_NoLanguageCheck(ed, position) ==
    \/ /\ ed = NoEditor
       /\ UNCHANGED <<settings, triggerManager, calls>>
       /\ ret' = [op |-> "triggerCompletion", editor |-> ed, started |-> FALSE]
       /\ UNCHANGED <<pendingRequest, promises, clock, runs, outstanding>>
    \/ /\ ed # NoEditor
       /\ Len(runs) < MaxRuns
       /\ createPendingRequest(ed, position)
       /\ runs' = Append(runs, NewRun(ed, position, StartEvents))
       /\ UNCHANGED <<settings, triggerManager, calls>>
       /\ ret' = [op |-> "triggerCompletion", editor |-> ed, started |-> TRUE]
       /\ UNCHANGED <<outstanding>>

\* The command up to 'await llmPromise': the editor guard, the pending
\* request, the start of the background build, the host re-invocation.
TriggerCompletion(ed, position) ==
    \/ /\ ~MarkdownEditor(ed)
       \* 'No markdown editor active'
       /\ UNCHANGED <<settings, triggerManager, calls>>
       /\ ret' = [op |-> "triggerCompletion", editor |-> ed, started |-> FALSE]
       /\ UNCHANGED <<pendingRequest, promises, clock, runs, outstanding>>
    \/ /\ MarkdownEditor(ed)
       /\ Len(runs) < MaxRuns
       /\ createPendingRequest(ed, position)
       /\ runs' = Append(runs, NewRun(ed, position, StartEvents))
       /\ UNCHANGED <<settings, triggerManager, calls>>
       /\ ret' = [op |-> "triggerCompletion", editor |-> ed, started |-> TRUE]
       /\ UNCHANGED <<outstanding>>

\* What a resumed async task leaves in ret: it returns to no caller.
Continuation == [op |-> "continuation"]

\* The background task once buildPrompt has returned: getCompletion runs
\* up to 'await generateText(...)', which puts the model call in flight.
\* buildPrompt awaits openTextDocument once per configured context file, so
\* other handlers (a further trigger, the provider) can run before this step.
StartBackendCall(r) ==
    /\ r \in DOMAIN runs
    /\ runs[r].pc = "build"
    /\ runs' = [runs EXCEPT ![r].pc = "wait", ![r].events = Append(@, "generateText")]
    /\ outstanding' = outstanding \cup {r}
    /\ UNCHANGED <<settings, triggerManager, calls>>
    /\ ret' = Continuation
    /\ UNCHANGED <<pendingRequest, promises, clock>>

\* 'if (completion)': neither null nor the empty string
Truthy(completion) == completion # NullText /\ completion # EmptyText

BackendAnswer_NoNullCheck(r, outcome) ==
    LET completion == getCompletion(outcome) IN
    /\ r \in DOMAIN runs
    /\ runs[r].pc = "wait"
    /\ resolveRequest(<<InlineCompletionItem(completion, runs[r].position)>>)
    /\ runs' = [runs EXCEPT ![r].pc = "done", ![r].completion = completion,
                            ![r].events = @ \o <<"response", "resolveRequest">>]
    /\ outstanding' = outstanding \ {r}
    /\ UNCHANGED <<settings, triggerManager, calls>>
    /\ ret' = [op |-> "getCompletion", run |-> r, outcome |-> outcome, result |-> completion]

BackendAnswer_DropEmpty(r, outcome) ==
    LET completion == getCompletion(outcome) IN
    /\ r \in DOMAIN runs
    /\ runs[r].pc = "wait"
    /\ IF Truthy(completion)
         THEN resolveRequest(<<InlineCompletionItem(completion, runs[r].position)>>)
         ELSE UNCHANGED <<promises, pendingRequest, clock>>
    /\ runs' = [runs EXCEPT ![r].pc = "done", ![r].completion = completion,
                            ![r].events = @ \o <<"response", "resolveRequest">>]
    /\ outstanding' = outstanding \ {r}
    /\ UNCHANGED <<settings, triggerManager, calls>>
    /\ ret' = [op |-> "getCompletion", run |-> r, outcome |-> outcome, result |-> completion]

\* generateText settles; getCompletion returns; the command resumes after
\* 'await llmPromise' and resolves the request.
BackendAnswer(r, outcome) ==
    LET completion == getCompletion(outcome) IN
    /\ r \in DOMAIN runs
    /\ runs[r].pc = "wait"
    /\ IF Truthy(completion)
         THEN resolveRequest(<<InlineCompletionItem(completion, runs[r].position)>>)
         ELSE resolveRequest(<<>>)
    /\ runs' = [runs EXCEPT ![r].pc = "done", ![r].completion = completion,
                            ![r].events = @ \o <<"response", "resolveRequest">>]
    /\ outstanding' = outstanding \ {r}
    /\ UNCHANGED <<settings, triggerManager, calls>>
    /\ ret' = [op |-> "getCompletion", run |-> r, outcome |-> outcome, result |-> completion]

Provide_Consume(document, position) ==
    /\ UNCHANGED <<settings, triggerManager, calls>>
    /\ ret' = provideInlineCompletionItems(document, position)
    /\ pendingRequest' = IF provideInlineCompletionItems(document, position).result # NoPromise
                           THEN NoRequest ELSE pendingRequest
    /\ UNCHANGED <<promises, clock, runs, outstanding>>

\* The host calls the provider (after a re-invocation, or on its own).
Provide(document, position) ==
    /\ UNCHANGED <<settings, triggerManager, calls>>
    /\ ret' = provideInlineCompletionItems(document, position)
    /\ UNCHANGED <<pendingRequest, promises, clock, runs, outstanding>>

\* The status bar item is written by the handlers and read by none of them:
\* this specification follows the requests and holds the item fixed, and
\* StatusSpec below follows the same handlers together with their setStatus
\* calls.
Next ==
    \/ \E ed \in Editors, position \in Positions :
          TriggerCompletion(ed, position) /\ UNCHANGED statusBar
    \/ \E r \in 1..MaxRuns : StartBackendCall(r) /\ UNCHANGED statusBar
    \/ \E r \in 1..MaxRuns : \E outcome \in Outcomes(r) :
          BackendAnswer(r, outcome) /\ UNCHANGED statusBar
    \/ \E document \in Docs, position \in Positions :
          Provide(document, position) /\ UNCHANGED statusBar

Spec == Init /\ [][Next]_vars

\* Every started build reaches its model call and every model call answers.
Fairness ==
    \A r \in 1..MaxRuns :
        /\ WF_vars(StartBackendCall(r) /\ UNCHANGED statusBar)
        /\ WF_vars(\E outcome \in Outcomes(r) :
                      BackendAnswer(r, outcome) /\ UNCHANGED statusBar)

FairSpec == Spec /\ Fairness

\* ------------------------------------------------------ the status bar item
\* The command's setStatus call before its first await: the warning of the
\* editor guard, or the loading indicator, which has no timeout.
TriggerStatus(ed) ==
    statusBar' = IF MarkdownEditor(ed)
                   THEN setStatus("Fetching...", "loading~spin", NoTimeout)
                   ELSE setStatus("Open a markdown file", "warning", 3000)

AnswerStatus_SilentOnNull(completion) ==
    IF Truthy(completion)
      THEN statusBar' = setStatus("Ready - Tab to accept", "check", 5000)
      ELSE UNCHANGED statusBar

\* The command's setStatus call after 'await llmPromise'.  When generateText
\* threw, getCompletion's catch has set 'Error - see output' just before, in
\* the same uninterrupted stretch: this call overwrites it.
AnswerStatus(completion) ==
    IF Truthy(completion)
      THEN statusBar' = setStatus("Ready - Tab to accept", "check", 5000)
      ELSE statusBar' = setStatus("No completion", "warning", 3000)

\* A setStatus timer fires: 'statusBarItem.text = "$(sparkle) Complementry"'.
\* Other timers may or may not remain.
StatusTimeout ==
    /\ statusBar.timers
    /\ \E more \in BOOLEAN :
          statusBar' = [icon |-> IdleStatus.icon, text |-> IdleStatus.text, timers |-> more]
    /\ ret' = Continuation
    /\ UNCHANGED <<pendingRequest, promises, clock, runs, outstanding, settings,
                   triggerManager, calls>>

\* The handlers of Spec with their setStatus calls, and the reset timers.  The
\* provider sets no status.
StatusNext ==
    \/ StatusTimeout
    \/ \E ed \in Editors, position \in Positions :
          TriggerCompletion(ed, position) /\ TriggerStatus(ed)
    \/ \E r \in 1..MaxRuns : StartBackendCall(r) /\ UNCHANGED statusBar
    \/ \E r \in 1..MaxRuns : \E outcome \in Outcomes(r) :
          BackendAnswer(r, outcome) /\ AnswerStatus(getCompletion(outcome))

StatusSpec == Init /\ [][StatusNext]_vars

\* ------------------------------- CompletionRequestManager, called directly
ItemLists ==
    {<<>>} \cup {<<InlineCompletionItem(t, position)>> :
                    t \in {"baz", "qux"}, position \in Positions}

ApiCreatePendingRequest(documentUri, position) ==
    /\ Len(promises) < MaxRequests
    /\ createPendingRequest(documentUri, position)
    /\ UNCHANGED <<settings, triggerManager, calls>>
    /\ UNCHANGED statusBar
    /\ ret' = [op |-> "createPendingRequest"]
    /\ UNCHANGED <<runs, outstanding>>

ApiResolveRequest(items) ==
    /\ resolveRequest(items)
    /\ UNCHANGED <<settings, triggerManager, calls>>
    /\ UNCHANGED statusBar
    /\ ret' = [op |-> "resolveRequest", items |-> items, wasPending |-> hasPendingRequest]
    /\ UNCHANGED <<runs, outstanding>>

ApiCancelRequest ==
    /\ cancelRequest
    /\ UNCHANGED <<settings, triggerManager, calls>>
    /\ UNCHANGED statusBar
    /\ ret' = [op |-> "cancelRequest", wasPending |-> hasPendingRequest]
    /\ UNCHANGED <<runs, outstanding>>

ApiGetPendingPromise(documentUri) ==
    /\ UNCHANGED <<settings, triggerManager, calls>>
    /\ UNCHANGED statusBar
    /\ ret' = [op |-> "getPendingPromise", document |-> documentUri,
               result |-> getPendingPromise(documentUri)]
    /\ UNCHANGED <<pendingRequest, promises, clock, runs, outstanding>>

ApiHasPendingRequest ==
    /\ UNCHANGED <<settings, triggerManager, calls>>
    /\ UNCHANGED statusBar
    /\ ret' = [op |-> "hasPendingRequest", result |-> hasPendingRequest]
    /\ UNCHANGED <<pendingRequest, promises, clock, runs, outstanding>>

ApiNext ==
    \/ \E documentUri \in Docs, position \in Positions :
          ApiCreatePendingRequest(documentUri, position)
    \/ \E items \in ItemLists : ApiResolveRequest(items)
    \/ ApiCancelRequest
    \/ \E documentUri \in Docs : ApiGetPendingPromise(documentUri)
    \/ ApiHasPendingRequest

ApiSpec == Init /\ [][ApiNext]_vars

\* ------------------------------- DocumentSettingsManager, called directly
SettingsGetSettings(documentUri) ==
    /\ settings' = getSettings(settings, documentUri)
    /\ ret' = [op |-> "getSettings", document |-> documentUri,
               created |-> documentUri \notin DOMAIN settings,
               result |-> getSettings(settings, documentUri)[documentUri]]
    /\ UNCHANGED <<pendingRequest, promises, clock, runs, outstanding,
                   statusBar, triggerManager, calls>>

SettingsSetPromptTemplate(documentUri, template) ==
    /\ setPromptTemplate(documentUri, template)
    /\ ret' = [op |-> "setPromptTemplate", document |-> documentUri, template |-> template]
    /\ UNCHANGED <<pendingRequest, promises, clock, runs, outstanding,
                   statusBar, triggerManager, calls>>

SettingsAddContextFile(documentUri, filePath) ==
    /\ addContextFile(documentUri, filePath)
    /\ ret' = [op |-> "addContextFile", document |-> documentUri, path |-> filePath,
               wasPresent |-> Includes(getContextFiles(settings, documentUri), filePath)]
    /\ UNCHANGED <<pendingRequest, promises, clock, runs, outstanding,
                   statusBar, triggerManager, calls>>

SettingsRemoveContextFile(documentUri, filePath) ==
    /\ removeContextFile(documentUri, filePath)
    /\ ret' = [op |-> "removeContextFile", document |-> documentUri, path |-> filePath,
               wasPresent |-> Includes(getContextFiles(settings, documentUri), filePath)]
    /\ UNCHANGED <<pendingRequest, promises, clock, runs, outstanding,
                   statusBar, triggerManager, calls>>

SettingsGetContextFiles(documentUri) ==
    /\ settings' = getSettings(settings, documentUri)
    /\ ret' = [op |-> "getContextFiles", document |-> documentUri,
               result |-> getContextFiles(settings, documentUri)]
    /\ UNCHANGED <<pendingRequest, promises, clock, runs, outstanding,
                   statusBar, triggerManager, calls>>

SettingsNext ==
    \/ \E documentUri \in SettingsDocs : SettingsGetSettings(documentUri)
    \/ \E documentUri \in SettingsDocs, template \in Templates :
          SettingsSetPromptTemplate(documentUri, template)
    \/ \E documentUri \in SettingsDocs, filePath \in Paths :
          SettingsAddContextFile(documentUri, filePath)
    \/ \E documentUri \in SettingsDocs, filePath \in Paths :
          SettingsRemoveContextFile(documentUri, filePath)
    \/ \E documentUri \in SettingsDocs : SettingsGetContextFiles(documentUri)

SettingsSpec == Init /\ [][SettingsNext]_vars

\* ------------------------------------------- PromptBuilder, called directly
\* buildPrompt as the trigger command calls it: the active document, the
\* cursor position in it, the configured default template.
BuildPrompt(document, position, defaultTemplate, fs) ==
    /\ position[2] <= Len(Chars(document.text))
    /\ settings' = getSettings(settings, document.uri)
    /\ ret' = [op |-> "buildPrompt", document |-> document, position |-> position,
               defaultTemplate |-> defaultTemplate, fs |-> fs,
               result |-> buildPrompt(settings, document, position, defaultTemplate, fs)]
    /\ UNCHANGED <<pendingRequest, promises, clock, runs, outstanding,
                   statusBar, triggerManager, calls>>

PromptNext ==
    \/ \E document \in TextDocuments, template \in PromptTemplates :
          SettingsSetPromptTemplate(document.uri, template)
    \/ \E document \in TextDocuments, filePath \in ContextPaths :
          SettingsAddContextFile(document.uri, filePath)
    \/ \E document \in TextDocuments, filePath \in ContextPaths :
          SettingsRemoveContextFile(document.uri, filePath)
    \/ \E document \in TextDocuments, position \in CursorPositions,
          defaultTemplate \in DefaultTemplates, fs \in FileSystems :
          BuildPrompt(document, position, defaultTemplate, fs)

PromptSpec == Init /\ [][PromptNext]_vars

\* ------------------------------------------------- LLMService, called directly
\* getCompletion(prompt, config) of the Bedrock variant, with the outcome of
\* its generateText call.
BedrockGetCompletion(prompt, config, outcome) ==
    /\ ret' = [op |-> "LLMService.getCompletion", variant |-> "bedrock",
               config |-> config, request |-> generateTextCall(prompt, config),
               notice |-> "none", result |-> getCompletion(outcome)]
    /\ UNCHANGED <<pendingRequest, promises, clock, runs, outstanding, settings,
                   statusBar, triggerManager, calls>>

\* getCompletion(prompt, config) of the HTTP variant, with the outcome of its
\* fetch call (Throws: the request fails or the response is not ok).
HttpGetCompletion(prompt, config, outcome) ==
    /\ ret' = [op |-> "LLMService.getCompletion", variant |-> "http",
               config |-> config, request |-> fetchCall(prompt, config),
               notice |-> IF fetchCall(prompt, config) = NoCall
                            THEN "showWarningMessage"
                            ELSE IF outcome = Throws THEN "showErrorMessage"
                            ELSE "none",
               result |-> IF fetchCall(prompt, config) = NoCall
                            THEN NullText ELSE getCompletion(outcome)]
    /\ UNCHANGED <<pendingRequest, promises, clock, runs, outstanding, settings,
                   statusBar, triggerManager, calls>>

RequestNext ==
    \/ \E prompt \in Prompts, config \in Configurations, outcome \in Outcomes(1) :
          BedrockGetCompletion(prompt, config, outcome)
    \/ \E prompt \in Prompts, config \in Configurations, outcome \in Outcomes(1) :
          HttpGetCompletion(prompt, config, outcome)

RequestSpec == Init /\ [][RequestNext]_vars

\* ---------------- CompletionTriggerManager (result-caching), called directly
MaxCalls == 7
CacheDocs == {"file:///a.md", "file:///b.md"}
CacheItems ==
    {<<>>, <<InlineCompletionItem("baz", <<0, 0>>)>>, <<InlineCompletionItem("qux", <<0, 3>>)>>}

\* calls: the call that stored the current result, then the
\* getCompletionResult calls made since, each with the value it returned.
CacheSetCompletionResult(documentUri, items) ==
    /\ triggerManager' = setCompletionResult(triggerManager, documentUri, items)
    /\ calls' = <<[op |-> "setCompletionResult", documentUri |-> documentUri, items |-> items]>>
    /\ ret' = [op |-> "setCompletionResult", documentUri |-> documentUri]
    /\ UNCHANGED <<pendingRequest, promises, clock, runs, outstanding, settings, statusBar>>

CacheGetCompletionResult(documentUri) ==
    LET call == getCompletionResult(triggerManager, documentUri) IN
    /\ Len(calls) < MaxCalls
    /\ triggerManager' = call.manager
    /\ calls' = Append(calls, [op |-> "getCompletionResult", documentUri |-> documentUri,
                               items |-> call.result])
    /\ ret' = [op |-> "getCompletionResult", documentUri |-> documentUri,
               result |-> call.result]
    /\ UNCHANGED <<pendingRequest, promises, clock, runs, outstanding, settings, statusBar>>

\* clearResult has no caller in the extension and is not among the actions.
CacheNext ==
    \/ \E documentUri \in CacheDocs, items \in CacheItems :
          CacheSetCompletionResult(documentUri, items)
    \/ \E documentUri \in CacheDocs : CacheGetCompletionResult(documentUri)

CacheSpec == Init /\ [][CacheNext]_vars

\* ------------- complementry.triggerCompletion and provider (result-caching)
\* the cursor position of the commands of this variant, which no step reads
\* except to build the item's range
CachingPositions == {<<0, 3>>}
\* A run of the command: it holds no promise, it stores its result.
CachingRun(document, position) ==
    [pc |-> "build", document |-> document, position |-> position, completion |-> NullText]

\* The command up to 'await promptBuilder.buildPrompt(...)'.  It leaves the
\* trigger manager as it is.
CachingTriggerCompletion(ed, position) ==
    \/ /\ ~MarkdownEditor(ed)
       /\ statusBar' = setStatus("Open a markdown file", "warning", 3000)
       /\ ret' = [op |-> "triggerCompletion", editor |-> ed, started |-> FALSE]
       /\ UNCHANGED <<runs, triggerManager>>
       /\ UNCHANGED <<pendingRequest, promises, clock, outstanding, settings, calls>>
    \/ /\ MarkdownEditor(ed)
       /\ Len(runs) < MaxRuns
       /\ statusBar' = setStatus("Fetching...", "loading~spin", NoTimeout)
       /\ runs' = Append(runs, CachingRun(ed, position))
       /\ ret' = [op |-> "triggerCompletion", editor |-> ed, started |-> TRUE]
       /\ UNCHANGED triggerManager
       /\ UNCHANGED <<pendingRequest, promises, clock, outstanding, settings, calls>>

\* buildPrompt has returned; getCompletion runs up to 'await generateText'.
CachingStartBackendCall(r) ==
    /\ r \in DOMAIN runs
    /\ runs[r].pc = "build"
    /\ runs' = [runs EXCEPT ![r].pc = "wait"]
    /\ outstanding' = outstanding \cup {r}
    /\ ret' = Continuation
    /\ UNCHANGED <<pendingRequest, promises, clock, settings, statusBar, triggerManager, calls>>

\* getCompletion returns; 'if (completion)' stores the item and asks the host
\* to call the provider, or reports 'No completion' and stores nothing.
CachingBackendAnswer(r, outcome) ==
    LET completion == getCompletion(outcome) IN
    /\ r \in DOMAIN runs
    /\ runs[r].pc = "wait"
    /\ outstanding' = outstanding \ {r}
    /\ IF Truthy(completion)
         THEN /\ triggerManager' =
                    setCompletionResult(triggerManager, runs[r].document,
                        <<InlineCompletionItem(completion, runs[r].position)>>)
              /\ runs' = [runs EXCEPT ![r].pc = "suggest", ![r].completion = completion]
              /\ UNCHANGED statusBar
         ELSE /\ statusBar' = setStatus("No completion", "warning", 3000)
              /\ runs' = [runs EXCEPT ![r].pc = "done"]
              /\ UNCHANGED triggerManager
    /\ ret' = [op |-> "getCompletion", run |-> r, outcome |-> outcome, result |-> completion]
    /\ UNCHANGED <<pendingRequest, promises, clock, settings, calls>>

\* 'await executeCommand("editor.action.inlineSuggest.trigger")' returns.
CachingSuggested(r) ==
    /\ r \in DOMAIN runs
    /\ runs[r].pc = "suggest"
    /\ runs' = [runs EXCEPT ![r].pc = "done"]
    /\ statusBar' = setStatus("Ready - Tab to accept", "check", 5000)
    /\ ret' = Continuation
    /\ UNCHANGED <<pendingRequest, promises, clock, outstanding, settings, triggerManager, calls>>

\* The host calls the provider, which reads the document and not the
\* position.
CachingProvide(document) ==
    LET call == getCompletionResult(triggerManager, document) IN
    IF languageId(document) # "markdown"
      THEN /\ ret' = [op |-> "provideInlineCompletionItems", document |-> document,
                      result |-> NullItems]
           /\ UNCHANGED <<pendingRequest, promises, clock, runs, outstanding, settings,
                          statusBar, triggerManager, calls>>
      ELSE /\ triggerManager' = call.manager
           /\ ret' = [op |-> "provideInlineCompletionItems", document |-> document,
                      result |-> call.result]
           /\ UNCHANGED <<pendingRequest, promises, clock, runs, outstanding, settings,
                          statusBar, calls>>

CachingNext ==
    \/ StatusTimeout
    \/ \E ed \in Editors, position \in CachingPositions :
          CachingTriggerCompletion(ed, position)
    \/ \E r \in 1..MaxRuns : CachingStartBackendCall(r)
    \/ \E r \in 1..MaxRuns : \E outcome \in Outcomes(r) : CachingBackendAnswer(r, outcome)
    \/ \E r \in 1..MaxRuns : CachingSuggested(r)
    \/ \E document \in Docs : CachingProvide(document)

CachingSpec == Init /\ [][CachingNext]_vars

\* ------------------- complementry.triggerCompletion and provider (HTTP)
\* CompletionTriggerManager of the HTTP variant: two fields, no call counter.
setCompletionResultHttp(manager, documentUri, items) ==
    [manager EXCEPT !.completionResult = items, !.completionDocUri = documentUri]

\* getCompletionResult of the HTTP variant: the first call for the stored
\* document takes the result.
getCompletionResultHttp(manager, documentUri) ==
    IF manager.completionDocUri = documentUri
      THEN [manager |-> [manager EXCEPT !.completionResult = NullItems,
                                        !.completionDocUri = NullText],
            result |-> manager.completionResult]
      ELSE [manager |-> manager, result |-> NullItems]

\* the prompt buildPrompt returns to the command
HttpPrompts == {"Continue: foobar"}
\* the configurations that differ in the endpoint and the key
HttpConfigurations ==
    {config \in Configurations : DOMAIN config \subseteq {"apiEndpoint", "apiKey"}}

\* The command up to 'await promptBuilder.buildPrompt(...)', with the
\* configuration object it reads at its start.
HttpTriggerCompletion(ed, position, config) ==
    \/ /\ ~MarkdownEditor(ed)
       /\ ret' = [op |-> "triggerCompletion", editor |-> ed, started |-> FALSE,
                  notice |-> "showWarningMessage"]
       /\ UNCHANGED <<runs, triggerManager>>
       /\ UNCHANGED <<pendingRequest, promises, clock, outstanding, settings, statusBar, calls>>
    \/ /\ MarkdownEditor(ed)
       /\ Len(runs) < MaxRuns
       /\ runs' = Append(runs, [pc |-> "build", document |-> ed, position |-> position,
                                config |-> config, request |-> NoCall])
       /\ ret' = [op |-> "triggerCompletion", editor |-> ed, started |-> TRUE,
                  notice |-> "none"]
       /\ UNCHANGED triggerManager
       /\ UNCHANGED <<pendingRequest, promises, clock, outstanding, settings, statusBar, calls>>

\* buildPrompt has returned prompt; getCompletion runs up to 'await fetch',
\* or, without an endpoint or a key, warns and returns null: the command then
\* skips the 'if (completion && ...)' block and ends.
HttpStartBackendCall(r, prompt) ==
    LET request == fetchCall(prompt, runs[r].config) IN
    /\ r \in DOMAIN runs
    /\ runs[r].pc = "build"
    /\ IF request = NoCall
         THEN /\ runs' = [runs EXCEPT ![r].pc = "done"]
              /\ ret' = [op |-> "LLMService.getCompletion", variant |-> "http", run |-> r,
                         config |-> runs[r].config, request |-> request,
                         notice |-> "showWarningMessage", result |-> NullText]
              /\ UNCHANGED outstanding
         ELSE /\ runs' = [runs EXCEPT ![r].pc = "wait", ![r].request = request]
              /\ ret' = [op |-> "fetch", variant |-> "http", run |-> r,
                         config |-> runs[r].config, request |-> request,
                         notice |-> "none", result |-> NullText]
              /\ outstanding' = outstanding \cup {r}
    /\ UNCHANGED <<pendingRequest, promises, clock, settings, statusBar, triggerManager, calls>>

\* fetch settles and getCompletion returns; 'if (completion &&
\* !token.isCancellationRequested)' stores the item and asks the host to call
\* the provider.  Nothing follows the awaited executeCommand.
HttpBackendAnswer(r, outcome, isCancellationRequested) ==
    LET completion == getCompletion(outcome) IN
    /\ r \in DOMAIN runs
    /\ runs[r].pc = "wait"
    /\ runs' = [runs EXCEPT ![r].pc = "done"]
    /\ outstanding' = outstanding \ {r}
    /\ triggerManager' =
          IF Truthy(completion) /\ ~isCancellationRequested
            THEN setCompletionResultHttp(triggerManager, runs[r].document,
                     <<InlineCompletionItem(completion, runs[r].position)>>)
            ELSE triggerManager
    /\ ret' = [op |-> "LLMService.getCompletion", variant |-> "http", run |-> r,
               config |-> runs[r].config, request |-> runs[r].request,
               notice |-> IF outcome = Throws THEN "showErrorMessage" ELSE "none",
               result |-> completion]
    /\ UNCHANGED <<pendingRequest, promises, clock, settings, statusBar, calls>>

\* The host calls the provider.
HttpProvide(document) ==
    LET call == getCompletionResultHttp(triggerManager, document) IN
    IF languageId(document) # "markdown"
      THEN /\ ret' = [op |-> "provideInlineCompletionItems", document |-> document,
                      result |-> NullItems]
           /\ UNCHANGED <<pendingRequest, promises, clock, runs, outstanding, settings,
                          statusBar, triggerManager, calls>>
      ELSE /\ triggerManager' = call.manager
           /\ ret' = [op |-> "provideInlineCompletionItems", document |-> document,
                      result |-> call.result]
           /\ UNCHANGED <<pendingRequest, promises, clock, runs, outstanding, settings,
                          statusBar, calls>>

HttpNext ==
    \/ \E ed \in Editors, position \in CachingPositions, config \in HttpConfigurations :
          HttpTriggerCompletion(ed, position, config)
    \/ \E r \in 1..MaxRuns, prompt \in HttpPrompts : HttpStartBackendCall(r, prompt)
    \/ \E r \in 1..MaxRuns : \E outcome \in Outcomes(r), isCancellationRequested \in BOOLEAN :
          HttpBackendAnswer(r, outcome, isCancellationRequested)
    \/ \E document \in Docs : HttpProvide(document)

HttpSpec == Init /\ [][HttpNext]_vars

\* -------------------------- PromptBuilder.buildPrompt, one await at a time
\* A buildPrompt call suspended in its 'for (const filePath of
\* settings.contextFiles)' loop.  The loop iterates the settings' own array:
\* index is the place of the element whose openTextDocument is awaited, and
\* the iterator takes the element at index + 1 of the array as it is when the
\* await returns.  loaded lists the files whose block contextContent holds.
\* stayed is the set of the files configured when the call began and not
\* removed since.
\* Number of buildPrompt calls followed one await at a time.
MaxBuilds == 1
\* the document whose prompt is built and whose context files are edited
LoadDocs == {"file:///a.md"}

LoadingRun(document, fs, files) ==
    [pc |-> IF files = <<>> THEN "done" ELSE "load",
     document |-> document, fs |-> fs,
     index |-> IF files = <<>> THEN 0 ELSE 1,
     awaited |-> IF files = <<>> THEN NullText ELSE files[1],
     loaded |-> <<>>,
     stayed |-> {files[i] : i \in DOMAIN files}]

\* buildPrompt(document, ...) up to its first 'await openTextDocument', or to
\* its return when no context file is configured.
LoadBuildPrompt(document, fs) ==
    /\ Len(runs) < MaxBuilds
    /\ settings' = getSettings(settings, document)
    /\ runs' = Append(runs, LoadingRun(document, fs, getContextFiles(settings, document)))
    /\ ret' = [op |-> "buildPrompt", document |-> document]
    /\ UNCHANGED <<pendingRequest, promises, clock, outstanding, statusBar, triggerManager, calls>>

\* The awaited openTextDocument settles: the block is appended or the catch
\* skips the file, and the loop goes on to the next element of the array or
\* ends.
LoadOpened(r) ==
    /\ r \in DOMAIN runs
    /\ runs[r].pc = "load"
    /\ LET run == runs[r]
           files == settings[run.document].contextFiles
           loaded == IF openTextDocument(run.fs, run.awaited) = Missing
                       THEN run.loaded
                       ELSE Append(run.loaded, run.awaited)
       IN  runs' = [runs EXCEPT ![r] =
                      IF run.index + 1 <= Len(files)
                        THEN [run EXCEPT !.index = run.index + 1,
                                         !.awaited = files[run.index + 1],
                                         !.loaded = loaded]
                        ELSE [run EXCEPT !.pc = "done", !.loaded = loaded]]
    /\ ret' = Continuation
    /\ UNCHANGED <<pendingRequest, promises, clock, outstanding, settings, statusBar,
                   triggerManager, calls>>

\* The addContextFile command adds a file while builds may be suspended.
LoadAddContextFile(documentUri, filePath) ==
    /\ addContextFile(documentUri, filePath)
    /\ ret' = [op |-> "addContextFile", document |-> documentUri, path |-> filePath]
    /\ UNCHANGED <<pendingRequest, promises, clock, runs, outstanding, statusBar,
                   triggerManager, calls>>

\* The removeContextFile command removes a file while builds may be
\* suspended.
LoadRemoveContextFile(documentUri, filePath) ==
    /\ removeContextFile(documentUri, filePath)
    /\ runs' = [r \in DOMAIN runs |->
                  IF runs[r].document = documentUri /\ runs[r].pc = "load"
                    THEN [runs[r] EXCEPT !.stayed = @ \ {filePath}]
                    ELSE runs[r]]
    /\ ret' = [op |-> "removeContextFile", document |-> documentUri, path |-> filePath]
    /\ UNCHANGED <<pendingRequest, promises, clock, outstanding, statusBar,
                   triggerManager, calls>>

LoadNext ==
    \/ \E document \in LoadDocs, fs \in FileSystems : LoadBuildPrompt(document, fs)
    \/ \E r \in 1..MaxBuilds : LoadOpened(r)
    \/ \E documentUri \in LoadDocs, filePath \in ContextPaths :
          LoadAddContextFile(documentUri, filePath)
    \/ \E documentUri \in LoadDocs, filePath \in ContextPaths :
          LoadRemoveContextFile(documentUri, filePath)

LoadSpec == Init /\ [][LoadNext]_vars

TypeOK ==
    /\ clock \in Nat
    /\ Len(runs) <= MaxRuns
    /\ outstanding \subseteq DOMAIN runs
    /\ pendingRequest # NoRequest => pendingRequest.promise \in DOMAIN promises

\* ======================================================== properties
\* The run that created promise p (in Spec, promises are created by runs).
Creator(p) == CHOOSE r \in DOMAIN runs : runs[r].promise = p

\* i < j with e[i] = a and e[j] = b
Before(e, a, b) ==
    \E i \in DOMAIN e, j \in DOMAIN e : i < j /\ e[i] = a /\ e[j] = b

Occurs(e, a) == \E i \in DOMAIN e : e[i] = a

AllRunsDone == \A r \in DOMAIN runs : runs[r].pc = "done"

\* C1: single-flight invariant. After any sequence of createPendingRequest,
\* resolveRequest, cancelRequest and getPendingPromise calls at most one
\* promise is unsettled, and an unsettled promise is the one of the request
\* held in the manager's single slot.
SingleFlight ==
    /\ Cardinality(Unsettled) <= 1
    /\ \A p \in Unsettled : hasPendingRequest /\ pendingRequest.promise = p

\* C1 witness: a request was created while another one was pending.
SingleFlightWitness ==
    /\ Len(promises) >= 2
    /\ promises[1].settledAt # 0
    /\ promises[1].settledAt < promises[2].createdAt
    /\ Unsettled = {Len(promises)}

\* C2: supersession. A createPendingRequest call made while a request is
\* pending settles the old promise with the empty list before the new promise
\* is created, the new promise is a fresh unsettled one, and afterwards the
\* slot holds the new request only (the old promise is handed to nobody).
Supersession ==
    [][(Len(promises') = Len(promises) + 1 /\ pendingRequest # NoRequest) =>
        LET old == pendingRequest.promise
            new == pendingRequest'.promise
        IN  /\ promises'[old].settledAt # 0
            /\ promises'[old].value = <<>>
            /\ promises'[old].settledAt < promises'[new].createdAt
            /\ new \notin DOMAIN promises
            /\ promises'[new].settledAt = 0
            /\ promises'[new].resolveCalls = 0
            /\ \A d \in Docs : getPendingPromise(d)' # old
            /\ Unsettled' = {new}]_vars

\* C2 witness: a pending request for one document was superseded by a
\* request for another document.
SupersessionWitness ==
    /\ ret.op = "createPendingRequest"
    /\ Len(promises) = 2
    /\ promises[1].documentUri # promises[2].documentUri
    /\ promises[1].settledAt = promises[2].createdAt - 1
    /\ promises[1].value = <<>>
    /\ pendingRequest.promise = 2

\* C3: settle-once. The resolver of every promise is invoked at most once,
\* whatever the interleaving of overlapping triggerCompletion runs.
SettleOnce ==
    \A p \in DOMAIN promises : promises[p].resolveCalls <= 1

\* C3 witness: two overlapping runs have both finished, and each promise's
\* resolver has been invoked.
SettleOnceWitness ==
    /\ Len(runs) = 2
    /\ AllRunsDone
    /\ promises[1].settledAt < promises[2].createdAt
    /\ \A p \in DOMAIN promises : promises[p].resolveCalls = 1

\* C4: settlement liveness. Provided every started backend call answers,
\* every promise created by a triggerCompletion run eventually settles, and
\* no promise is unsettled once all runs have processed their answer.
SettlementLiveness ==
    /\ \A p \in 1..MaxRuns :
          (p \in DOMAIN promises) ~> (p \in DOMAIN promises /\ Settled(p))
    /\ [](AllRunsDone => Unsettled = {})

\* C4 witness: overlapping runs whose backend calls all failed have finished
\* and left every promise settled.
SettlementLivenessWitness ==
    /\ Len(runs) = MaxRuns
    /\ AllRunsDone
    /\ \A r \in DOMAIN runs : runs[r].completion = NullText
    /\ promises[1].settledAt < promises[2].createdAt
    /\ Unsettled = {}

\* C5: the late answer of a superseded request is a no-op. When a run whose
\* promise was already settled by a newer createPendingRequest gets its
\* backend answer while the newer request is pending, that step settles no
\* promise and leaves the pending request in the slot unchanged.
LateAnswerIsNoOp ==
    [][\A r \in DOMAIN runs :
         ( /\ runs[r].pc = "wait"
           /\ runs'[r].pc = "done"
           /\ Settled(runs[r].promise)
           /\ pendingRequest # NoRequest
           /\ pendingRequest.promise # runs[r].promise )
         => (promises' = promises /\ pendingRequest' = pendingRequest)]_vars

\* C6: result ownership and anchoring. A promise settled with a non-empty
\* list holds exactly one item, whose insertText is the text the backend
\* returned to the run that created the promise and whose range is the empty
\* range at the position stored with that promise's request.
ResultOwnership ==
    \A p \in DOMAIN promises :
        (Settled(p) /\ promises[p].value # <<>>) =>
            /\ Len(promises[p].value) = 1
            /\ promises[p].value[1].insertText = runs[Creator(p)].completion
            /\ promises[p].value[1].range = <<promises[p].position, promises[p].position>>

\* C7: at any instant at most one backend call is outstanding.
OneBackendCall == Cardinality(outstanding) <= 1

\* C8: ordering within a run. The pending request is created first; the host
\* re-invocation is issued next, while the run's request is the one in the
\* slot, and is not awaited; the backend response and resolveRequest come
\* after the re-invocation.
TriggerOrdering ==
    /\ \A r \in DOMAIN runs :
         LET e == runs[r].events IN
           /\ e[1] = "createPendingRequest"
           /\ Before(e, "createPendingRequest", "inlineSuggest.trigger")
           /\ ~Occurs(e, "await inlineSuggest.trigger")
           /\ Occurs(e, "response") => Before(e, "inlineSuggest.trigger", "response")
           /\ Occurs(e, "resolveRequest") => Before(e, "response", "resolveRequest")
           /\ ~Before(e, "response", "inlineSuggest.trigger")
           /\ runs[r].pc = "done" <=> Occurs(e, "resolveRequest")
    /\ (ret.op = "triggerCompletion" /\ ret.started) =>
         /\ pendingRequest.promise = runs[Len(runs)].promise
         /\ getPendingPromise(runs[Len(runs)].document) = runs[Len(runs)].promise
         /\ ~Settled(runs[Len(runs)].promise)

\* C8 witness: a run has received its backend response and resolved.
TriggerOrderingWitness ==
    \E r \in DOMAIN runs :
        /\ runs[r].pc = "done"
        /\ runs[r].completion \in Texts
        /\ Before(runs[r].events, "inlineSuggest.trigger", "response")

\* C9: for a markdown document the provider returns the outstanding promise
\* exactly when the slot holds a request for that document's URI, and null
\* otherwise.
ProviderResult ==
    (ret.op = "provideInlineCompletionItems" /\ ret.languageId = "markdown") =>
        IF hasPendingRequest /\ pendingRequest.documentUri = ret.document
          THEN /\ ret.result = pendingRequest.promise
               /\ ~Settled(ret.result)
          ELSE ret.result = NoPromise

\* C9 witness: the provider handed out the pending promise of its document
\* while a backend call was in flight.
ProviderResultWitness ==
    /\ ret.op = "provideInlineCompletionItems"
    /\ ret.languageId = "markdown"
    /\ ret.result # NoPromise
    /\ outstanding # {}

\* C10: provider decline. For a document that is not markdown the provider
\* returns null in every coordinator state, without calling
\* getPendingPromise and without changing the coordinator.
ProviderDecline ==
    /\ []((ret.op = "provideInlineCompletionItems" /\ ret.languageId # "markdown") =>
            (ret.result = NoPromise /\ ~ret.consulted))
    /\ [][(ret'.op = "provideInlineCompletionItems") =>
            UNCHANGED <<pendingRequest, promises, clock>>]_vars

\* C10 witness: the provider declined a plaintext document while a request
\* was pending.
ProviderDeclineWitness ==
    /\ ret.op = "provideInlineCompletionItems"
    /\ ret.languageId = "plaintext"
    /\ ret.result = NoPromise
    /\ hasPendingRequest

\* C11: lookup is by document identity only. For a markdown document the
\* provider's result is the same for every position it is invoked with, and
\* it is the pending promise whenever the slot belongs to the document,
\* whatever position is stored in the slot.
PositionIndependent ==
    (ret.op = "provideInlineCompletionItems" /\ ret.languageId = "markdown") =>
        /\ \A position \in Positions :
              provideInlineCompletionItems(ret.document, position).result = ret.result
        /\ (hasPendingRequest /\ pendingRequest.documentUri = ret.document) =>
              ret.result = pendingRequest.promise

\* C11 witness: the provider was invoked at a position other than the
\* trigger position and returned the pending promise.
PositionIndependentWitness ==
    /\ ret.op = "provideInlineCompletionItems"
    /\ hasPendingRequest
    /\ ret.position # pendingRequest.position
    /\ ret.result = pendingRequest.promise

\* C12: the provider is a pure observer. A provider call leaves the slot,
\* every promise, the runs and the set of backend calls in flight unchanged.
ProviderObserver ==
    [][(ret'.op = "provideInlineCompletionItems") =>
          UNCHANGED <<pendingRequest, promises, clock, runs, outstanding>>]_vars

\* C12 witness: the provider has returned the pending promise, which is
\* still unsettled and still in the slot.
ProviderObserverWitness ==
    /\ ret.op = "provideInlineCompletionItems"
    /\ ret.result # NoPromise
    /\ pendingRequest.promise = ret.result
    /\ ~Settled(ret.result)
    /\ \E r \in DOMAIN runs : runs[r].pc = "build"

\* C13: resolveRequest(items) while a request is pending settles that
\* request's promise with exactly the given items and empties the slot:
\* hasPendingRequest is false and getPendingPromise is null for every
\* document, and the slot is filled again only by createPendingRequest.
ResolveClears ==
    /\ [][(ret'.op = "resolveRequest" /\ pendingRequest # NoRequest) =>
            LET p == pendingRequest.promise IN
              /\ promises'[p].settledAt # 0
              /\ promises'[p].value = ret'.items
              /\ promises'[p].resolveCalls = 1
              /\ ~hasPendingRequest'
              /\ \A d \in Docs : getPendingPromise(d)' = NoPromise]_vars
    /\ [][(pendingRequest = NoRequest /\ pendingRequest' # NoRequest) =>
            ret'.op = "createPendingRequest"]_vars

\* C13 witness: a pending request was resolved with one item.
ResolveClearsWitness ==
    /\ ret.op = "resolveRequest"
    /\ ret.wasPending
    /\ Len(ret.items) = 1
    /\ \E p \in DOMAIN promises : promises[p].value = ret.items
    /\ ~hasPendingRequest

\* C14: resolveRequest and cancelRequest called while no request is pending
\* settle nothing and leave the coordinator idle.
IdleNoOp ==
    [][(pendingRequest = NoRequest /\ ret'.op \in {"resolveRequest", "cancelRequest"}) =>
          UNCHANGED <<pendingRequest, promises, clock>>]_vars

\* C14 witness: resolveRequest was called with an item after the only
\* request had already been settled.
IdleNoOpWitness ==
    /\ ret.op = "resolveRequest"
    /\ ~ret.wasPending
    /\ ret.items # <<>>
    /\ promises # <<>>
    /\ \A p \in DOMAIN promises : promises[p].resolveCalls = 1
    /\ ~hasPendingRequest

\* C15: cancelRequest() is equivalent to resolveRequest([]): every
\* cancelRequest step is a step resolveRequest([]) allows, and conversely.
CancelIsResolveEmpty ==
    /\ [][(ret'.op = "cancelRequest") => resolveRequest(<<>>)]_vars
    /\ [][(ret'.op = "resolveRequest" /\ ret'.items = <<>>) => cancelRequest]_vars

\* C15 witness: cancelRequest settled a pending promise with the empty list.
CancelIsResolveEmptyWitness ==
    /\ ret.op = "cancelRequest"
    /\ ret.wasPending
    /\ ~hasPendingRequest
    /\ promises[Len(promises)].settledAt # 0
    /\ promises[Len(promises)].value = <<>>

\* C16: backend failure resolves empty. When the backend call of the run
\* that owns the pending request fails or returns no text, the run's
\* continuation settles that request's promise with the empty list and
\* empties the slot.
BackendFailureResolvesEmpty ==
    [][\A r \in DOMAIN runs :
         ( /\ runs[r].pc = "wait"
           /\ runs'[r].pc = "done"
           /\ ~Truthy(runs'[r].completion)
           /\ pendingRequest # NoRequest
           /\ pendingRequest.promise = runs[r].promise )
         => /\ promises'[runs[r].promise].settledAt # 0
            /\ promises'[runs[r].promise].value = <<>>
            /\ promises'[runs[r].promise].resolveCalls = 1
            /\ pendingRequest' = NoRequest]_vars

\* C16 witness: the second of two runs, alone in flight, got an empty answer
\* and its own promise was settled empty.
BackendFailureResolvesEmptyWitness ==
    /\ Len(runs) = 2
    /\ AllRunsDone
    /\ promises[1].settledAt < promises[2].createdAt
    /\ promises[1].value # <<>>
    /\ ret.op = "getCompletion" /\ ret.run = 2 /\ ret.outcome = EmptyText
    /\ promises[2].settledAt = clock
    /\ promises[2].value = <<>>
    /\ ~hasPendingRequest

\* C17: the backend client fails soft. getCompletion returns null when the
\* model call throws and when the text is empty, and the text otherwise; no
\* exception reaches the trigger command, which runs on to its end with
\* that value.
FailSoft ==
    (ret.op = "getCompletion") =>
        /\ ret.outcome \in {Throws, EmptyText} => ret.result = NullText
        /\ ret.outcome \notin {Throws, EmptyText} => ret.result = ret.outcome
        /\ runs[ret.run].pc = "done"
        /\ runs[ret.run].completion = ret.result
        /\ Occurs(runs[ret.run].events, "resolveRequest")

\* C17 witness: the model call threw and the run finished with null.
FailSoftWitness ==
    /\ ret.op = "getCompletion"
    /\ ret.outcome = Throws
    /\ ret.result = NullText
    /\ runs[ret.run].pc = "done"

NoDuplicates(files) ==
    \A i \in DOMAIN files, j \in DOMAIN files : i # j => files[i] # files[j]

\* C18: no duplicate context files. After any sequence of settings calls no
\* document's contextFiles holds a path twice, and addContextFile with a
\* path that is already present leaves the list unchanged.
NoDuplicateContextFiles ==
    /\ [](\A d \in DOMAIN settings : NoDuplicates(settings[d].contextFiles))
    /\ [][(/\ ret'.op = "addContextFile"
           /\ Includes(getContextFiles(settings, ret'.document), ret'.path)) =>
             getContextFiles(settings', ret'.document)
                = getContextFiles(settings, ret'.document)]_vars

\* C18 witness: a path was added to a list that already held it, and the
\* list holds it once.
NoDuplicateContextFilesWitness ==
    /\ ret.op = "addContextFile"
    /\ ret.wasPresent
    /\ Len(settings[ret.document].contextFiles) = 2
    /\ Cardinality({i \in DOMAIN settings[ret.document].contextFiles :
                      settings[ret.document].contextFiles[i] = ret.path}) = 1

\* C19: removeContextFile with a path that is not in the document's
\* contextFiles leaves the list (content and order) and the prompt template
\* unchanged.
RemoveAbsentNoOp ==
    [][(/\ ret'.op = "removeContextFile"
        /\ ~Includes(getContextFiles(settings, ret'.document), ret'.path)) =>
          /\ getContextFiles(settings', ret'.document)
                = getContextFiles(settings, ret'.document)
          /\ TemplateOf(settings', ret'.document)
                = TemplateOf(settings, ret'.document)]_vars

\* C19 witness: an absent path was removed from a document that has two
\* context files and a template override.
RemoveAbsentNoOpWitness ==
    /\ ret.op = "removeContextFile"
    /\ ~ret.wasPresent
    /\ Len(settings[ret.document].contextFiles) = 2
    /\ ~Includes(settings[ret.document].contextFiles, ret.path)
    /\ settings[ret.document].promptTemplate \in Templates

SettingsOps ==
    {"getSettings", "setPromptTemplate", "addContextFile", "removeContextFile",
     "getContextFiles"}

\* C20: documents are independent namespaces. A settings call on one
\* document changes neither the existence nor the content of the settings
\* of any other document.
DocumentsIndependent ==
    [][\A b \in SettingsDocs :
         (ret'.op \in SettingsOps /\ ret'.document # b) =>
            /\ (b \in DOMAIN settings') <=> (b \in DOMAIN settings)
            /\ b \in DOMAIN settings => settings'[b] = settings[b]]_vars

\* C20 witness: the template of one document was set while another document
\* has its own template and context files.
DocumentsIndependentWitness ==
    /\ ret.op = "setPromptTemplate"
    /\ \E b \in DOMAIN settings :
          /\ b # ret.document
          /\ settings[b].promptTemplate \in Templates
          /\ settings[b].promptTemplate # ret.template
          /\ settings[b].contextFiles # <<>>
          /\ settings[b].contextFiles # settings[ret.document].contextFiles

\* the settings object of a document never accessed before
DefaultSettings == [promptTemplate |-> NoTemplate, contextFiles |-> <<>>]

\* C21: lazy creation and persistence of settings. getSettings for a
\* document never accessed before returns settings with empty contextFiles
\* and no template override and stores them; no call deletes or resets a
\* document's settings: an entry changes only by a write to that document,
\* a written template is the stored one, and getSettings for a known
\* document returns the stored entry as it is.
LazyPersistentSettings ==
    /\ [][(ret'.op = "getSettings" /\ ret'.document \notin DOMAIN settings) =>
            /\ ret'.result = DefaultSettings
            /\ ret'.document \in DOMAIN settings'
            /\ settings'[ret'.document] = ret'.result]_vars
    /\ [][\A d \in DOMAIN settings :
            /\ d \in DOMAIN settings'
            /\ settings'[d] # settings[d] =>
                  /\ ret'.op \in {"setPromptTemplate", "addContextFile", "removeContextFile"}
                  /\ ret'.document = d
            /\ settings'[d].promptTemplate # settings[d].promptTemplate =>
                  /\ ret'.op = "setPromptTemplate"
                  /\ settings'[d].promptTemplate = ret'.template]_vars
    /\ [][(ret'.op = "getSettings" /\ ret'.document \in DOMAIN settings) =>
            /\ ret'.result = settings[ret'.document]
            /\ settings' = settings]_vars

\* C21 witness: getSettings on a document that was written before returned
\* the written template and context files.
LazyPersistentSettingsWitness ==
    /\ ret.op = "getSettings"
    /\ ~ret.created
    /\ ret.result.promptTemplate \in Templates
    /\ Len(ret.result.contextFiles) = 2
    /\ settings[ret.document] = ret.result

\* ---- the last buildPrompt call: its document settings and its values
BuiltSettings == settings[ret.document.uri]
BuiltTemplate == Chars(OrElse(BuiltSettings.promptTemplate, ret.defaultTemplate))
BuiltContext == contextContent(BuiltSettings.contextFiles, ret.fs)
\* the values of the five template variables, in the order of Placeholders
BuiltValues ==
    <<Chars(ret.document.text),
      getText(ret.document, <<0, 0>>, ret.position),
      getText(ret.document, ret.position, EndOf(ret.document)),
      BuiltContext,
      Chars(CursorMarker)>>

\* the template variables that occur in s at index i
PlaceholdersAt(s, i) ==
    {k \in DOMAIN Placeholders : MatchAt(s, Chars(Placeholders[k]), i)}
NoPlaceholderIn(s) == \A i \in DOMAIN s : PlaceholdersAt(s, i) = {}

\* Simultaneous substitution: one pass over the template in which every
\* occurrence of a template variable becomes its value, taken as it is.
RECURSIVE Simultaneous(_, _, _)
Simultaneous(template, values, from) ==
    IF from > Len(template) THEN <<>>
    ELSE IF PlaceholdersAt(template, from) = {}
      THEN <<template[from]>> \o Simultaneous(template, values, from + 1)
      ELSE LET k == CHOOSE k \in PlaceholdersAt(template, from) : TRUE
           IN  values[k] \o Simultaneous(template, values,
                                         from + Len(Chars(Placeholders[k])))

\* C22: effective template. buildPrompt uses the document's promptTemplate
\* override whenever one has been set, for every override value including
\* the empty string, and the default template only when none has been set.
EffectiveTemplate ==
    (ret.op = "buildPrompt") =>
        ret.result =
          ReplaceTemplateVariables(
            Chars(IF BuiltSettings.promptTemplate # NoTemplate
                    THEN BuiltSettings.promptTemplate
                    ELSE ret.defaultTemplate),
            BuiltValues[1], BuiltValues[2], BuiltValues[3], BuiltValues[4])

\* C23: global placeholder substitution. Every occurrence of a template
\* variable in the template is replaced, not only the first: when no
\* substituted value holds a '$' and no variable name arises in the
\* substituted text, the prompt is the template with each occurrence of
\* each variable replaced by its value; and 'A{cursor}B{cursor}' always
\* yields 'A[CURSOR HERE]B[CURSOR HERE]'.
GlobalSubstitution ==
    (ret.op = "buildPrompt") =>
        /\ (/\ \A k \in DOMAIN BuiltValues :
                  \A i \in DOMAIN BuiltValues[k] : BuiltValues[k][i] # "$"
            /\ NoPlaceholderIn(Simultaneous(BuiltTemplate, BuiltValues, 1)))
              => ret.result = Simultaneous(BuiltTemplate, BuiltValues, 1)
        /\ BuiltTemplate = Chars("A{cursor}B{cursor}") =>
              ret.result = <<"A">> \o Chars(CursorMarker) \o <<"B">> \o Chars(CursorMarker)

\* C23 witness: a template with two occurrences of each of the five
\* variables was built with a non-empty context and a cursor inside the
\* text, and no variable name is left in the prompt.
GlobalSubstitutionWitness ==
    /\ ret.op = "buildPrompt"
    /\ \A k \in DOMAIN Placeholders :
          \E i \in DOMAIN BuiltTemplate, j \in DOMAIN BuiltTemplate :
             i # j /\ k \in PlaceholdersAt(BuiltTemplate, i)
                   /\ k \in PlaceholdersAt(BuiltTemplate, j)
    /\ ret.document.text = "foobar"
    /\ ret.position = <<0, 3>>
    /\ BuiltContext # <<>>
    /\ NoPlaceholderIn(ret.result)
    /\ ret.result = Simultaneous(BuiltTemplate, BuiltValues, 1)

\* C24: substitution is order-independent. The prompt equals the
\* simultaneous substitution of the variables that occur in the template,
\* for every document text and context content; for the template
\* '{before_cursor}[X]{after_cursor}' it is before + '[X]' + after.
OrderIndependent ==
    (ret.op = "buildPrompt") =>
        /\ ret.result = Simultaneous(BuiltTemplate, BuiltValues, 1)
        /\ BuiltTemplate = Chars("{before_cursor}[X]{after_cursor}") =>
              ret.result = BuiltValues[2] \o <<"[", "X", "]">> \o BuiltValues[3]

\* the block of one loaded context file
ContextBlock(filePath, text) ==
    Chars("\n--- Context from ") \o Chars(filePath) \o Chars(" ---\n")
    \o Chars(text) \o Chars("\n")

\* the total length of the blocks of the files that open
RECURSIVE LoadedLength(_, _)
LoadedLength(files, fs) ==
    IF files = <<>> THEN 0
    ELSE (IF fs[Head(files)] = Missing
            THEN 0 ELSE Len(ContextBlock(Head(files), fs[Head(files)])))
         + LoadedLength(Tail(files), fs)

\* C25: context tolerance. buildPrompt with any mix of loadable and missing
\* context file paths completes with a prompt; the {context_files} content
\* holds the block of every loadable file, holds nothing else, and does not
\* mention a missing file.
ContextTolerance ==
    (ret.op = "buildPrompt") =>
        /\ DOMAIN ret.result = 1..Len(ret.result)
        /\ \A i \in DOMAIN BuiltSettings.contextFiles :
              LET filePath == BuiltSettings.contextFiles[i] IN
              IF ret.fs[filePath] # Missing
                THEN Search(BuiltContext, ContextBlock(filePath, ret.fs[filePath]), 1) # 0
                ELSE Search(BuiltContext, Chars(filePath), 1) = 0
        /\ Len(BuiltContext) = LoadedLength(BuiltSettings.contextFiles, ret.fs)
        /\ BuiltTemplate = Chars("{context_files}") => ret.result = BuiltContext

\* C25 witness: a prompt was built from '{context_files}' with a missing
\* file configured before a loadable one; it is the loadable file's block.
ContextToleranceWitness ==
    /\ ret.op = "buildPrompt"
    /\ BuiltTemplate = Chars("{context_files}")
    /\ BuiltSettings.contextFiles = <<"/ctx/a.md", "/ctx/b.md">>
    /\ ret.fs["/ctx/a.md"] = Missing
    /\ ret.fs["/ctx/b.md"] = "beta"
    /\ ret.result = ContextBlock("/ctx/b.md", "beta")

\* The literal segments of a template: the text before, between and after
\* the occurrences of the five template variables (cur is the segment being
\* read).
RECURSIVE Literals(_, _, _)
Literals(template, from, cur) ==
    IF from > Len(template) THEN <<cur>>
    ELSE IF PlaceholdersAt(template, from) = {}
      THEN Literals(template, from + 1, Append(cur, template[from]))
      ELSE LET k == CHOOSE k \in PlaceholdersAt(template, from) : TRUE
           IN  <<cur>> \o Literals(template, from + Len(Chars(Placeholders[k])), <<>>)

\* The segments lits[k..] occur in s from index from on, in their order
\* and without overlap, the last one at the end of s.
RECURSIVE OccurInOrder(_, _, _, _)
OccurInOrder(s, lits, k, from) ==
    IF k = Len(lits)
      THEN /\ Len(s) - Len(lits[k]) + 1 >= from
           /\ MatchAt(s, lits[k], Len(s) - Len(lits[k]) + 1)
      ELSE /\ Search(s, lits[k], from) # 0
           /\ OccurInOrder(s, lits, k + 1, Search(s, lits[k], from) + Len(lits[k]))

\* C26: text of the template that is not one of the five template
\* variables, unknown brace tokens such as {foo} included, appears unchanged
\* in the prompt: the prompt is the literal segments of the template, in
\* order, with some text in place of each variable; a template without a
\* variable is returned unchanged.
LiteralTextUnchanged ==
    (ret.op = "buildPrompt") =>
        LET lits == Literals(BuiltTemplate, 1, <<>>) IN
        /\ NoPlaceholderIn(BuiltTemplate) => ret.result = BuiltTemplate
        /\ Len(lits) > 1 =>
              /\ MatchAt(ret.result, lits[1], 1)
              /\ OccurInOrder(ret.result, lits, 2, Len(lits[1]) + 1)

\* the maximum output tokens and the model of a backend call
MaxTokensOf(request) ==
    IF request.call = "fetch" THEN request.max_tokens ELSE request.maxOutputTokens

\* C27: the backend call is issued with the configured maxTokens as its
\* maximum output tokens, and with 150 when no value is configured.
RequestMaxTokens ==
    (ret.op = "LLMService.getCompletion" /\ ret.request # NoCall) =>
        MaxTokensOf(ret.request) =
            IF "maxTokens" \in DOMAIN ret.config THEN ret.config["maxTokens"] ELSE 150

\* C27 witness: a Bedrock call was issued with a configured maxTokens that
\* is not the default.
RequestMaxTokensWitness ==
    /\ ret.op = "LLMService.getCompletion"
    /\ ret.variant = "bedrock"
    /\ "maxTokens" \in DOMAIN ret.config
    /\ ret.request.maxOutputTokens = 64

\* C28: the model identifier of the backend call is 'gpt-4' when no model
\* is configured.
ModelDefault ==
    (/\ ret.op = "LLMService.getCompletion"
     /\ ret.request # NoCall
     /\ "model" \notin DOMAIN ret.config) =>
        ret.request.model = "gpt-4"

\* C29: the slot never holds a settled promise. Whenever the manager holds
\* a pending request its promise is unsettled, so a promise handed out by
\* getPendingPromise (the provider's result) is unsettled when handed out.
SlotUnsettled ==
    /\ hasPendingRequest => ~Settled(pendingRequest.promise)
    /\ (ret.op = "getPendingPromise" /\ ret.result # NoPromise) =>
          ~Settled(ret.result)

\* C29 witness: after one request was superseded, the promise of the
\* request now in the slot was handed out, unsettled.
SlotUnsettledWitness ==
    /\ Len(promises) = 2
    /\ Settled(1)
    /\ hasPendingRequest
    /\ ret.op = "getPendingPromise"
    /\ ret.result = 2
    /\ ~Settled(2)

\* C30: trigger guard. A triggerCompletion run with no active editor, or
\* with an active document that is not markdown, starts nothing: it creates
\* no pending request, cancels or settles no existing one, and starts no
\* backend call.
TriggerGuard ==
    [][(ret'.op = "triggerCompletion" /\ ~MarkdownEditor(ret'.editor)) =>
        /\ ~ret'.started
        /\ UNCHANGED <<pendingRequest, promises, clock, runs, outstanding>>]_vars

\* C30 witness: the command ran on a plaintext document while a request
\* was pending and its backend call in flight; both are still there.
TriggerGuardWitness ==
    /\ ret.op = "triggerCompletion"
    /\ ret.editor = "file:///notes.txt"
    /\ ~ret.started
    /\ hasPendingRequest
    /\ ~Settled(pendingRequest.promise)
    /\ outstanding # {}

\* C31: context files under concurrent edits.  A finished buildPrompt call
\* has included every file that loads and was configured for the document
\* from the start of the call to its end, whatever addContextFile and
\* removeContextFile commands ran while it was suspended.
NoFileSkipped ==
    \A r \in DOMAIN runs :
        runs[r].pc = "done" =>
            \A filePath \in runs[r].stayed :
                openTextDocument(runs[r].fs, filePath) # Missing
                    => Includes(runs[r].loaded, filePath)

\* the blocks of a list of loaded files, one after the other
RECURSIVE Blocks(_, _)
Blocks(files, fs) ==
    IF files = <<>> THEN <<>>
    ELSE ContextBlock(Head(files), fs[Head(files)]) \o Blocks(Tail(files), fs)

\* the configured files that open, in contextFiles order
LoadedFiles(files, fs) == SelectSeq(files, LAMBDA filePath : fs[filePath] # Missing)

\* C32: context block format and order. The {context_files} content is the
\* concatenation, in contextFiles order, of one block
\* '\n--- Context from <path> ---\n<text>\n' per file that loaded; it is the
\* empty string when no file is configured or none loads.
ContextBlockFormat ==
    (ret.op = "buildPrompt") =>
        /\ BuiltContext = Blocks(LoadedFiles(BuiltSettings.contextFiles, ret.fs), ret.fs)
        /\ LoadedFiles(BuiltSettings.contextFiles, ret.fs) = <<>> => BuiltContext = <<>>
        /\ BuiltTemplate = Chars("{context_files}") =>
              ret.result = Blocks(LoadedFiles(BuiltSettings.contextFiles, ret.fs), ret.fs)

\* C32 witness: two loadable files, configured in the order b, a, gave
\* the block of b followed by the block of a.
ContextBlockFormatWitness ==
    /\ ret.op = "buildPrompt"
    /\ BuiltTemplate = Chars("{context_files}")
    /\ BuiltSettings.contextFiles = <<"/ctx/b.md", "/ctx/a.md">>
    /\ ret.result = ContextBlock("/ctx/b.md", "beta") \o ContextBlock("/ctx/a.md", "alpha")

\* C33: ordered-sequence semantics of contextFiles. addContextFile of a
\* path not yet present appends it at the end; removeContextFile of a
\* present path leaves the list without that path and with all other paths
\* in their previous order.
OrderedContextFiles ==
    /\ [][(/\ ret'.op = "addContextFile"
           /\ ~Includes(getContextFiles(settings, ret'.document), ret'.path)) =>
             getContextFiles(settings', ret'.document)
                = Append(getContextFiles(settings, ret'.document), ret'.path)]_vars
    /\ [][(/\ ret'.op = "removeContextFile"
           /\ Includes(getContextFiles(settings, ret'.document), ret'.path)) =>
             LET removed == ret'.path IN
             /\ ~Includes(getContextFiles(settings', ret'.document), removed)
             /\ getContextFiles(settings', ret'.document)
                  = SelectSeq(getContextFiles(settings, ret'.document),
                              LAMBDA filePath : filePath # removed)]_vars

\* C33 witness: the middle one of three context files was removed.
OrderedContextFilesWitness ==
    /\ ret.op = "removeContextFile"
    /\ ret.wasPresent
    /\ ret.path = "/ctx/b.md"
    /\ settings[ret.document].contextFiles = <<"/ctx/c.md", "/ctx/a.md">>

\* C34: no stuck loading indicator.  Once every started run has had its
\* backend call answered, the status bar item does not show 'Fetching...';
\* the step in which a run's backend call returns leaves 'Ready - Tab to
\* accept' when there is a completion and 'No completion' when there is none.
NoStuckLoading ==
    /\ AllRunsDone => statusBar.text # "Fetching..."
    /\ ret.op = "getCompletion" =>
          /\ statusBar.text = IF Truthy(ret.result) THEN "Ready - Tab to accept"
                                                    ELSE "No completion"
          /\ statusBar.icon = IF Truthy(ret.result) THEN "check" ELSE "warning"
          /\ statusBar.timers

\* Two overlapping runs have both ended, the last one without a completion.
NoStuckLoadingWitness ==
    /\ Len(runs) = 2
    /\ AllRunsDone
    /\ ret.op = "getCompletion"
    /\ ~Truthy(ret.result)
    /\ statusBar.text = "No completion"

\* The number of getCompletionResult calls for the stored document among
\* calls[2..i].
OwnCalls(i) ==
    Cardinality({j \in 2..i : calls[j].documentUri = calls[1].documentUri})

\* C35: after setCompletionResult(doc, items), getCompletionResult(doc)
\* returns items on exactly the next four calls for doc and null on every
\* later call, until setCompletionResult is called again; a call for another
\* document returns null and is not counted.  Before any result is stored
\* every call returns null.
FourCalls ==
    calls # <<>> =>
        IF calls[1].op = "setCompletionResult"
          THEN \A i \in 2..Len(calls) :
                  calls[i].items =
                      IF calls[i].documentUri = calls[1].documentUri /\ OwnCalls(i) <= 4
                        THEN calls[1].items
                        ELSE NullItems
          ELSE \A i \in 1..Len(calls) : calls[i].items = NullItems

\* A result was stored for a.md, read five times for a.md with a call for
\* b.md in between: the fourth read still returned it, the fifth did not.
FourCallsWitness ==
    /\ Len(calls) = 7
    /\ calls[1].op = "setCompletionResult"
    /\ calls[1].documentUri = "file:///a.md"
    /\ calls[1].items # <<>>
    /\ calls[3].documentUri = "file:///b.md"
    /\ OwnCalls(7) = 5
    /\ calls[6].items = calls[1].items
    /\ calls[7].items = NullItems
    /\ triggerManager.resultCallCount = 4

\* The most recent run of the command on a document.
LatestRun(document) ==
    CHOOSE r \in DOMAIN runs :
        /\ runs[r].document = document
        /\ \A q \in DOMAIN runs : runs[q].document = document => q <= r

\* C36: no stale result in the result-caching variant.  A non-null value
\* returned by the provider for a document is the item of the most recent run
\* of the command on that document: once a later run has started, the result
\* stored by an earlier one is not returned.
NoStaleResult ==
    (ret.op = "provideInlineCompletionItems" /\ ret.result # NullItems) =>
        ret.result = <<InlineCompletionItem(ResponseText(LatestRun(ret.document)),
                                            runs[LatestRun(ret.document)].position)>>

\* The configuration has no value, or the empty string, for the key.
MissingSetting(config, key) == key \notin DOMAIN config \/ config[key] = ""

\* C37: configuration errors in the HTTP variant.  When the API endpoint or
\* the API key is missing, the step in which a run of the command reaches
\* getCompletion shows a warning, issues no network request, returns null and
\* ends the run with the trigger manager's stored result as it was.
ConfigurationErrors ==
    [][\A r \in DOMAIN runs :
          (/\ runs[r].pc = "build"
           /\ runs'[r].pc # "build"
           /\ \/ MissingSetting(runs[r].config, "apiEndpoint")
              \/ MissingSetting(runs[r].config, "apiKey"))
          => /\ ret'.op = "LLMService.getCompletion"
             /\ ret'.run = r
             /\ ret'.notice = "showWarningMessage"
             /\ ret'.request = NoCall
             /\ ret'.result = NullText
             /\ outstanding' = outstanding
             /\ triggerManager' = triggerManager
             /\ runs'[r].pc = "done"]_vars

\* A run with an endpoint but no key has ended with the warning, while the
\* result of an earlier, configured run is still stored.
ConfigurationErrorsWitness ==
    /\ ret.op = "LLMService.getCompletion"
    /\ ret.notice = "showWarningMessage"
    /\ ret.run = 2
    /\ "apiKey" \notin DOMAIN ret.config
    /\ ~MissingSetting(ret.config, "apiEndpoint")
    /\ runs[2].pc = "done"
    /\ runs[1].pc = "done"
    /\ triggerManager.completionResult = <<InlineCompletionItem(ResponseText(1), runs[1].position)>>

====
